---- MODULE Spec2Model ----
(***************************************************************************)
(* Resilience layer of the agentic RAG pipeline:                           *)
(*   - CircuitBreaker (agent/error_handler_prod.py), driven by any number  *)
(*     of cooperative callers through call / async_call;                   *)
(*   - retry_with_backoff (agent/error_handler_prod.py), one wrapped call; *)
(*   - QueryCache (agent/cache_manager_prod.py), called by any number of   *)
(*     cooperative tasks.  A call of get, set, clear or clear_pattern never *)
(*     suspends (its asyncio locks are free whenever it asks for them), so *)
(*     each call is one step.  The cache clock counts whole seconds.       *)
(* Time is counted in ticks of 1/TicksPerSecond second, so that the        *)
(* truncation int(...) of _time_until_reset is visible.  Delays of the     *)
(* retry wrapper are counted in tenths of a delay unit, so that the jitter *)
(* factor 0.5 + random() (tenths 5..14) multiplies exactly.                *)
(***************************************************************************)
EXTENDS Integers, Sequences, FiniteSets, TLC

\* ------------------------------------------------------------------ bounds
NumCallers == 2
MaxTime == 6
TicksPerSecond == 2
MaxThreshold == 2
MaxRecoveryTimeout == 1
MaxRetries == 3
MaxClock == 3

Callers == 1..NumCallers

\* A run drives one part of the program; the variables of the other parts
\* are 0 throughout it.
VARIABLES
    \* CircuitBreaker fields
    failure_threshold,   \* self.failure_threshold
    recovery_timeout,    \* self.recovery_timeout (seconds)
    failure_count,       \* self.failure_count
    last_failure_time,   \* self.last_failure_time: << >> is None, <<t>> a stamp
    status,              \* self.status
    \* environment of the breaker
    now,                 \* datetime.now(), in ticks
    pc,                  \* per caller: "idle", "in_call" (inside func of call),
                         \*             "in_async" (suspended at await func)
    entered,             \* per caller: how the running call passed the gate
    ev,                  \* what the latest step was
    \* retry_with_backoff: decorator arguments and one run of the wrapper
    cfg,                 \* max_retries, initial_delay, max_delay, ...
    r_pc,                \* "call", "sleep", "returned", "raised", "type_error"
    attempt,             \* loop variable of   for attempt in range(max_retries)
    outcomes,            \* what each invocation of func did, in order
    last_exception,      \* invocation whose exception last_exception holds, 0 is None
    delivered,           \* invocation whose value/exception the caller received
    sleeps,              \* number of sleep() calls so far
    last_sleep,          \* argument of the latest sleep()
    jit,                 \* jitter factor (tenths) drawn for the latest delay
    \* QueryCache
    qc,                  \* constructor arguments
    cache,               \* self._cache: key -> value, stored_at, size_bytes
    access_times,        \* self._access_times: key -> time of last access
    total_memory_bytes,  \* self._total_memory_bytes
    consecutive_errors,  \* self._consecutive_errors
    circuit_open,        \* self._circuit_open
    clock,               \* time.time(), in seconds
    load,                \* what the callers of the cache pass, and the errors
                         \* its environment makes calls run into
    op,                  \* what the latest cache call did and returned
    \* QueryCache, calls taken step by step
    cache_lock,          \* self._lock.locked()
    acquired,            \* the tasks that entered the lock, in order
    task_pc,             \* per task: "idle", "want_lock", "locked",
                         \*           "write", "done"
    task_loc,            \* per task: locals and result of its call
    \* CircuitBreakerRegistry
    breakers,            \* self._breakers: name -> breaker object and state
    created,             \* number of CircuitBreaker objects constructed
    reg_ev,              \* what the latest registry call was and returned
    \* cached_search: one wrapped function called again and again
    w_pc,                \* "idle", "hit", "miss", "bypass", "timed",
                         \* "return", "raise"
    w_cur,               \* the call of the wrapper that is running
    w_done,              \* the latest call of the wrapper that finished
    w_prev,              \* the call that finished before w_done
    \* EmbeddingCache
    emb_max_size,        \* self._max_size
    emb_cache,           \* self._cache: key -> embedding
    access_order,        \* self._access_order
    emb_used,            \* per cached key, the call that last read or wrote it
    emb_ops,             \* number of calls made so far
    emb_ev,              \* what the latest call did and returned
    \* ErrorHandler
    max_history,         \* self.max_history
    error_counts,        \* self.error_counts: type name -> count
    error_history,       \* self.error_history
    arrivals,            \* every error handled so far, in order
    err_stats,           \* what the latest get_error_stats() returned
    \* CacheStatistics, and the tasks calling QueryCache.get
    stats,               \* hits, misses, errors, total_requests, cache_saves
    stats_lock,          \* self._lock.locked() of CacheStatistics
    g_pc,                \* per task: "idle", "want_lock", "inc_kind",
                         \*           "inc_total", "inc_saved", "returned"
    g_todo,              \* per task: the record_* calls its get still makes
    g_recorded,          \* per task: the record_* calls its get has made
    g_calls,             \* number of get calls started
    sn_pc,               \* the task calling get_stats: "idle", "read"
    snapshot,            \* what the latest get_stats() returned
    \* get_cache / get_embedding_cache
    si_instance,         \* per global: the instance it holds, 0 is None
    si_config,           \* per global: how its instance was constructed
    si_lock,             \* per global: its creation lock is held
    si_built,            \* per global: instances constructed so far
    si_pc,               \* per global and task: "idle", "want_lock",
                         \* "locked", "construct", "return", "returned",
                         \* "raised"
    si_got,              \* per global and task: the instance it was returned
    \* two breakers of one configuration, one driven through call and one
    \* through async_call
    pair,                \* both breakers, the clock and what the latest
                         \* call of each did
    \* QueryCache and CacheStatistics: who holds and who waits for the two
    \* locks
    lk                   \* per task its place in a call; the holder of
                         \* each lock; the sizes the eviction loops read

breakerVars == <<failure_threshold, recovery_timeout, failure_count,
                 last_failure_time, status, now, pc, entered, ev>>
retryVars == <<cfg, r_pc, attempt, outcomes, last_exception, delivered,
               sleeps, last_sleep, jit>>
vars == <<failure_threshold, recovery_timeout, failure_count,
          last_failure_time, status, now, pc, entered, ev,
          cfg, r_pc, attempt, outcomes, last_exception, delivered,
          sleeps, last_sleep, jit,
          qc, cache, access_times, total_memory_bytes,
          consecutive_errors, circuit_open, clock, load, op,
          cache_lock, acquired, task_pc, task_loc,
          breakers, created, reg_ev,
          w_pc, w_cur, w_done, w_prev,
          emb_max_size, emb_cache, access_order, emb_used, emb_ops, emb_ev,
          max_history, error_counts, error_history, arrivals, err_stats,
          stats, stats_lock, g_pc, g_todo, g_recorded, g_calls, sn_pc,
          snapshot,
          si_instance, si_config, si_lock, si_built, si_pc, si_got,
          pair, lk>>

Max(a, b) == IF a >= b THEN a ELSE b
Min(a, b) == IF a <= b THEN a ELSE b

\* =========================================================== QueryCache
\* ErrorHandlingMode
SILENT == "silent"
WARN == "warn"
RAISE == "raise"

\* self._max_consecutive_errors
MaxConsecutiveErrors == 10

\* what get returns for "no value"
ABSENT == "absent"

\* the value None when a caller stores it
NONE == "None"

\* queries the callers pass: four texts, one of them also in a spelling
\* that differs only by case and surrounding blanks, and the empty query
Queries == {"a", " A ", "b", "c", "d", ""}

\* query.lower().strip()
Normalized ==
    [q \in Queries |-> IF q = " A " THEN "a" ELSE q]

\* _generate_cache_key without embedding and params: None ("none") for an
\* empty query, else the digest of the normalised text (taken as injective)
Fingerprint(q) == IF q = "" THEN "none" ELSE Normalized[q]

\* values the callers store
Values == {"v1", "v2", "big"}

\* _estimate_size(value), in units of the model's memory budgets
SizeOf ==
    [v \in Values \cup {NONE} |->
        CASE v = "v1" -> 1 [] v = "v2" -> 2 [] v = "big" -> 3 [] v = NONE -> 1]

\* errors the environment can make one call run into: while the key is
\* built (handled in _generate_cache_key), in the body of get/set (handled
\* by except Exception), or a MemoryError in set
GetFaults == {"none", "keygen", "body"}
SetFaults == {"none", "keygen", "body", "memory"}

\* the workloads a cache is run under, each with the constructor arguments
\* it is run with: many keys on a small cache; respelled queries, values of
\* several sizes and overwrites; a failing environment
Workloads ==
    { [name |-> "many_keys", queries |-> {"a", "b", "c", "d"},
       values |-> {"v1"}, get_faults |-> {"none"}, set_faults |-> {"none"},
       max_size |-> 3, ttl_seconds |-> {3}, max_memory_bytes |-> 10,
       error_modes |-> {WARN}],
      [name |-> "overwrites", queries |-> {"a", " A ", "b", ""},
       values |-> Values, get_faults |-> {"none"}, set_faults |-> {"none"},
       max_size |-> 2, ttl_seconds |-> {1}, max_memory_bytes |-> 20,
       error_modes |-> {WARN}],
      [name |-> "failing", queries |-> {"a", ""},
       values |-> {"v1"}, get_faults |-> GetFaults, set_faults |-> SetFaults,
       max_size |-> 1, ttl_seconds |-> {1, 2}, max_memory_bytes |-> 10,
       error_modes |-> {SILENT, WARN, RAISE}] }

tableVars == <<cache, access_times, total_memory_bytes>>
errorVars == <<consecutive_errors, circuit_open>>
cacheVars == <<qc, cache, access_times, total_memory_bytes,
               consecutive_errors, circuit_open, clock, load, op>>

\* the dict without key k / with k bound to x
Without(f, k) == [j \in DOMAIN f \ {k} |-> f[j]]
With(f, k, x) == [j \in DOMAIN f \cup {k} |-> IF j = k THEN x ELSE f[j]]

NoEntries == [k \in {} |-> 0]

\* the tables as one value, with the keys _evict_item removed so far
Tables == [cache |-> cache, access |-> access_times,
           total |-> total_memory_bytes, evicted |-> << >>]

RECURSIVE SumSizes(_)
\* sum of size_bytes over the entries of table t
SumSizes(t) ==
    IF DOMAIN t = {} THEN 0
    ELSE LET k == CHOOSE j \in DOMAIN t : TRUE
         IN t[k].size_bytes + SumSizes(Without(t, k))

\* self.max_memory_mb * 1024 * 1024
MemoryLimitBytes == qc.max_memory_bytes

\* what the call did: op "get"/"set"/"clear"/"clear_pattern"/"tick", the key
\* it computed, the value passed, the injected fault, the result handed to
\* the caller ("raise" when an exception leaves the call), the
\* CacheStatistics records made, the keys passed to _evict_item, in order,
\* and whether the call found the circuit open
Done(name, key, value, fault, result, recorded, evicted) ==
    [op |-> name, key |-> key, value |-> value, fault |-> fault,
     result |-> result, recorded |-> recorded, evicted |-> evicted,
     was_open |-> circuit_open]

\* _handle_error, n times in a row: the counter and the circuit afterwards
HandleError_Late(n) ==
    /\ consecutive_errors' = consecutive_errors + n
    /\ circuit_open' = (circuit_open
                        \/ consecutive_errors + n > MaxConsecutiveErrors)

HandleError(n) ==
    /\ consecutive_errors' = consecutive_errors + n
    /\ circuit_open' = (circuit_open
                        \/ consecutive_errors + n >= MaxConsecutiveErrors)

\* _handle_error ends with raise CacheOperationError in this mode
Reraises_Always == TRUE

Reraises == qc.error_mode = RAISE

\* _reset_error_count
ResetErrorCount_KeepOpen ==
    IF consecutive_errors > 0
    THEN consecutive_errors' = 0 /\ UNCHANGED circuit_open
    ELSE UNCHANGED errorVars

ResetErrorCount ==
    IF consecutive_errors > 0
    THEN consecutive_errors' = 0 /\ circuit_open' = FALSE
    ELSE UNCHANGED errorVars

\* min(self._access_times.items(), key=lambda x: x[1])[0]: a key of least
\* access time (which one of several is the dict's iteration order)
LruKeys_Newest(access) ==
    {k \in DOMAIN access : \A j \in DOMAIN access : access[k] >= access[j]}

LruKeys(access) ==
    {k \in DOMAIN access : \A j \in DOMAIN access : access[k] <= access[j]}

\* _evict_item(key) on tables s, key cached
EvictItem_KeepStamp(s, k) ==
    [cache |-> Without(s.cache, k), access |-> s.access,
     total |-> s.total - s.cache[k].size_bytes,
     evicted |-> Append(s.evicted, k)]

EvictItem(s, k) ==
    [cache |-> Without(s.cache, k), access |-> Without(s.access, k),
     total |-> s.total - s.cache[k].size_bytes,
     evicted |-> Append(s.evicted, k)]

\* the size loop of _evict_if_needed goes on
CacheFull_OneMore(s) == Cardinality(DOMAIN s.cache) > qc.max_size

CacheFull(s) == Cardinality(DOMAIN s.cache) >= qc.max_size

RECURSIVE MemoryLoop(_, _)
\* first loop of _evict_if_needed: the set of outcomes [ok, s]
MemoryLoop(s, new_size) ==
    IF s.total + new_size > MemoryLimitBytes
    THEN IF DOMAIN s.cache = {} \/ DOMAIN s.access = {}
         THEN {[ok |-> FALSE, s |-> s]}
         ELSE UNION {
                IF k \notin DOMAIN s.cache
                THEN {[ok |-> FALSE, s |-> s]}
                ELSE IF Len(s.evicted) + 1 > qc.max_size
                THEN {[ok |-> FALSE, s |-> EvictItem(s, k)]}
                ELSE MemoryLoop(EvictItem(s, k), new_size)
                : k \in LruKeys(s.access) }
    ELSE {[ok |-> TRUE, s |-> s]}

RECURSIVE SizeLoop(_)
\* second loop of _evict_if_needed
SizeLoop(s) ==
    IF CacheFull(s) /\ DOMAIN s.cache # {}
    THEN IF DOMAIN s.access = {}
         THEN {[ok |-> FALSE, s |-> s]}
         ELSE UNION {
                IF k \notin DOMAIN s.cache
                THEN {[ok |-> FALSE, s |-> s]}
                ELSE SizeLoop(EvictItem(s, k))
                : k \in LruKeys(s.access) }
    ELSE {[ok |-> TRUE, s |-> s]}

\* _evict_if_needed(new_size)
EvictIfNeeded(new_size) ==
    UNION { IF m.ok THEN SizeLoop(m.s) ELSE {m}
            : m \in MemoryLoop(Tables, new_size) }

\* the tables become s
Install(s) ==
    /\ cache' = s.cache
    /\ access_times' = s.access
    /\ total_memory_bytes' = s.total

\* time.time() - timestamp > self.ttl_seconds
Expired_Eager(key) == clock - cache[key].stored_at >= qc.ttl_seconds

Expired_Sliding(key) == clock - access_times[key] > qc.ttl_seconds

Expired(key) == clock - cache[key].stored_at > qc.ttl_seconds

\* size_bytes > self.max_memory_mb * 1024 * 1024 * 0.1
TooLarge_Never(size_bytes) == FALSE

TooLarge(size_bytes) == size_bytes * 10 > MemoryLimitBytes

\* an exception reaches except Exception of get/set after handled calls of
\* _handle_error: record_error, _handle_error, and the result
Failed(name, key, value, fault, handled, fallback) ==
    /\ HandleError(handled + 1)
    /\ op' = Done(name, key, value, fault,
                  IF Reraises THEN "raise" ELSE fallback, <<"error">>, << >>)
    /\ UNCHANGED tableVars

\* if self._circuit_open: at the head of get and set
CircuitOpen_Never == FALSE

CircuitOpen == circuit_open

\* await cache.get(query)
QC_Get(q, fault) ==
    LET key == Fingerprint(q) IN
    /\ qc.on
    /\ UNCHANGED <<qc, clock, load>>
    /\ IF CircuitOpen
       THEN /\ fault = "none"
            /\ op' = Done("get", key, "none", fault, ABSENT, <<"miss">>, << >>)
            /\ UNCHANGED <<tableVars, errorVars>>
       ELSE IF key = "none"
       THEN /\ fault = "none"
            /\ op' = Done("get", key, "none", fault, ABSENT, <<"error">>, << >>)
            /\ UNCHANGED <<tableVars, errorVars>>
       ELSE IF fault = "keygen"
       THEN IF Reraises
            THEN Failed("get", key, "none", fault, 1, ABSENT)
            ELSE /\ HandleError(1)
                 /\ op' = Done("get", key, "none", fault, ABSENT, <<"error">>, << >>)
                 /\ UNCHANGED tableVars
       ELSE IF fault = "body"
       THEN Failed("get", key, "none", fault, 0, ABSENT)
       ELSE IF key \in DOMAIN cache
       THEN IF Expired(key)
            THEN /\ Install(EvictItem(Tables, key))
                 /\ op' = Done("get", key, "none", fault, ABSENT, <<"miss">>, <<key>>)
                 /\ UNCHANGED errorVars
            ELSE /\ access_times' = With(access_times, key, clock)
                 /\ op' = Done("get", key, "none", fault, cache[key].value,
                               <<"hit">>, << >>)
                 /\ ResetErrorCount
                 /\ UNCHANGED <<cache, total_memory_bytes>>
       ELSE /\ op' = Done("get", key, "none", fault, ABSENT, <<"miss">>, << >>)
            /\ UNCHANGED <<tableVars, errorVars>>

\* await cache.set(query, value)
QC_Set(q, v, fault) ==
    LET key == Fingerprint(q)
        size_bytes == SizeOf[v]
    IN
    /\ qc.on
    /\ UNCHANGED <<qc, clock, load>>
    /\ IF CircuitOpen \/ key = "none"
       THEN /\ fault = "none"
            /\ op' = Done("set", key, v, fault, "false", << >>, << >>)
            /\ UNCHANGED <<tableVars, errorVars>>
       ELSE IF fault = "keygen"
       THEN IF Reraises
            THEN Failed("set", key, v, fault, 1, "false")
            ELSE /\ HandleError(1)
                 /\ op' = Done("set", key, v, fault, "false", << >>, << >>)
                 /\ UNCHANGED tableVars
       ELSE IF fault = "memory"
       THEN \* except MemoryError: record_error, clear()
            /\ Install([cache |-> NoEntries, access |-> NoEntries, total |-> 0])
            /\ ResetErrorCount
            /\ op' = Done("set", key, v, fault, "false", <<"error">>, << >>)
       ELSE IF TooLarge(size_bytes)
       THEN /\ fault = "none"
            /\ op' = Done("set", key, v, fault, "false", << >>, << >>)
            /\ UNCHANGED <<tableVars, errorVars>>
       ELSE IF fault = "body"
       THEN Failed("set", key, v, fault, 0, "false")
       ELSE \E r \in EvictIfNeeded(size_bytes) :
              IF r.ok
              THEN /\ cache' = With(r.s.cache, key,
                                    [value |-> v, stored_at |-> clock,
                                     size_bytes |-> size_bytes])
                   /\ access_times' = With(r.s.access, key, clock)
                   /\ total_memory_bytes' = r.s.total + size_bytes
                   /\ ResetErrorCount
                   /\ op' = Done("set", key, v, fault, "true", << >>, r.s.evicted)
              ELSE /\ Install(r.s)
                   /\ op' = Done("set", key, v, fault, "false", << >>, r.s.evicted)
                   /\ UNCHANGED errorVars

\* await cache.clear()
QC_Clear ==
    /\ qc.on
    /\ Install([cache |-> NoEntries, access |-> NoEntries, total |-> 0])
    /\ ResetErrorCount
    /\ op' = Done("clear", "none", "none", "none", "true", << >>, << >>)
    /\ UNCHANGED <<qc, clock, load>>

RECURSIVE EvictAll(_)
\* for key in list(self._cache.keys()): _evict_item(key)
EvictAll(s) ==
    IF DOMAIN s.cache = {} THEN s
    ELSE EvictAll(EvictItem(s, CHOOSE k \in DOMAIN s.cache : TRUE))

\* await cache.clear_pattern(pattern)
QC_ClearPattern ==
    /\ qc.on
    /\ Install(EvictAll(Tables))
    /\ ResetErrorCount
    /\ op' = Done("clear_pattern", "none", "none", "none", "removed_count",
                  << >>, EvictAll(Tables).evicted)
    /\ UNCHANGED <<qc, clock, load>>

\* time.time() moves on
QC_Tick ==
    /\ qc.on
    /\ clock < MaxClock
    /\ clock' = clock + 1
    /\ op' = Done("tick", "none", "none", "none", "none", << >>, << >>)
    /\ UNCHANGED <<qc, load, tableVars, errorVars>>

\* QueryCache.__init__
CacheInit ==
    /\ load \in Workloads
    /\ qc \in [on : {TRUE}, max_size : {load.max_size},
               ttl_seconds : load.ttl_seconds,
               max_memory_bytes : {load.max_memory_bytes},
               error_mode : load.error_modes]
    /\ cache = NoEntries
    /\ access_times = NoEntries
    /\ total_memory_bytes = 0
    /\ consecutive_errors = 0
    /\ circuit_open = FALSE
    /\ clock = 0
    /\ op = Done("init", "none", "none", "none", "none", << >>, << >>)

\* no cache is constructed
CacheOff ==
    /\ qc = 0
    /\ cache = 0
    /\ access_times = 0
    /\ total_memory_bytes = 0
    /\ consecutive_errors = 0
    /\ circuit_open = 0
    /\ clock = 0
    /\ load = 0
    /\ op = 0

\* ================================== QueryCache, calls on one key step by step
\* Tasks that call the cache at the same time on the query "a": two call
\* set, with different values, and one calls get.  Here a call may be
\* suspended wherever the code awaits: at the lock and, holding it, at
\* _evict_if_needed.
Writers == {"w1", "w2"}
Readers == {"r"}
Tasks == Writers \cup Readers

\* the value a writer passes
TaskValue == [t \in Writers |-> IF t = "w1" THEN "v1" ELSE "v2"]

raceVars == <<cache_lock, acquired, task_pc, task_loc>>

\* locals of a call that has not got anywhere yet
NoLocals == [result |-> "none", wrote_at |-> 0, read |-> "none",
             indexed |-> FALSE]

\* async with self._lock can be entered
LockFree_Always == TRUE

LockFree == ~cache_lock

\* set up to the lock: circuit closed, key built, size estimated and small
Race_SetBegin(t) ==
    /\ t \in Writers
    /\ task_pc[t] = "idle"
    /\ ~circuit_open
    /\ ~TooLarge(SizeOf[TaskValue[t]])
    /\ task_pc' = [task_pc EXCEPT ![t] = "want_lock"]
    /\ UNCHANGED <<tableVars, clock, cache_lock, acquired, task_loc>>

\* get up to the lock: circuit closed, key built
Race_GetBegin(t) ==
    /\ t \in Readers
    /\ task_pc[t] = "idle"
    /\ ~circuit_open
    /\ task_pc' = [task_pc EXCEPT ![t] = "want_lock"]
    /\ UNCHANGED <<tableVars, clock, cache_lock, acquired, task_loc>>

\* async with self._lock: entered
Race_Acquire(t) ==
    /\ task_pc[t] = "want_lock"
    /\ LockFree
    /\ cache_lock' = TRUE
    /\ acquired' = Append(acquired, t)
    /\ task_pc' = [task_pc EXCEPT ![t] = "locked"]
    /\ UNCHANGED <<tableVars, clock, task_loc>>

\* set: await self._evict_if_needed(size_bytes); on False leave the lock
Race_SetEvict(t) ==
    /\ t \in Writers
    /\ task_pc[t] = "locked"
    /\ \E r \in EvictIfNeeded(SizeOf[TaskValue[t]]) :
         /\ Install(r.s)
         /\ IF r.ok
            THEN /\ task_pc' = [task_pc EXCEPT ![t] = "write"]
                 /\ UNCHANGED <<cache_lock, task_loc>>
            ELSE /\ task_pc' = [task_pc EXCEPT ![t] = "done"]
                 /\ task_loc' = [task_loc EXCEPT ![t].result = "false"]
                 /\ cache_lock' = FALSE
    /\ UNCHANGED <<clock, acquired>>

\* set: store the entry, stamp it, account it, leave the lock, return True
Race_SetWrite_NoStamp(t) ==
    /\ t \in Writers
    /\ task_pc[t] = "write"
    /\ cache' = With(cache, "a", [value |-> TaskValue[t], stored_at |-> clock,
                                  size_bytes |-> SizeOf[TaskValue[t]]])
    /\ total_memory_bytes' = total_memory_bytes + SizeOf[TaskValue[t]]
    /\ task_loc' = [task_loc EXCEPT ![t].result = "true",
                                    ![t].wrote_at = clock]
    /\ task_pc' = [task_pc EXCEPT ![t] = "done"]
    /\ cache_lock' = FALSE
    /\ UNCHANGED <<access_times, clock, acquired>>

Race_SetWrite(t) ==
    /\ t \in Writers
    /\ task_pc[t] = "write"
    /\ cache' = With(cache, "a", [value |-> TaskValue[t], stored_at |-> clock,
                                  size_bytes |-> SizeOf[TaskValue[t]]])
    /\ access_times' = With(access_times, "a", clock)
    /\ total_memory_bytes' = total_memory_bytes + SizeOf[TaskValue[t]]
    /\ task_loc' = [task_loc EXCEPT ![t].result = "true",
                                    ![t].wrote_at = clock]
    /\ task_pc' = [task_pc EXCEPT ![t] = "done"]
    /\ cache_lock' = FALSE
    /\ UNCHANGED <<clock, acquired>>

\* get under the lock: miss, expiry or hit; leave the lock
Race_GetRead(t) ==
    /\ t \in Readers
    /\ task_pc[t] = "locked"
    /\ IF "a" \in DOMAIN cache
       THEN IF Expired("a")
            THEN /\ Install(EvictItem(Tables, "a"))
                 /\ task_loc' = [task_loc EXCEPT ![t].result = ABSENT]
            ELSE /\ access_times' = With(access_times, "a", clock)
                 /\ task_loc' = [task_loc EXCEPT
                                   ![t].result = cache["a"].value,
                                   ![t].read = cache["a"],
                                   ![t].indexed = "a" \in DOMAIN access_times]
                 /\ UNCHANGED <<cache, total_memory_bytes>>
       ELSE /\ task_loc' = [task_loc EXCEPT ![t].result = ABSENT]
            /\ UNCHANGED tableVars
    /\ task_pc' = [task_pc EXCEPT ![t] = "done"]
    /\ cache_lock' = FALSE
    /\ UNCHANGED <<clock, acquired>>

\* time.time() moves on
Race_Tick ==
    /\ clock < MaxClock
    /\ clock' = clock + 1
    /\ UNCHANGED <<tableVars, raceVars>>

\* no task is calling the cache step by step
RaceOff ==
    /\ cache_lock = 0
    /\ acquired = 0
    /\ task_pc = 0
    /\ task_loc = 0

\* an empty cache and the three tasks about to call it
RaceInit ==
    /\ qc \in [on : {TRUE}, max_size : {1, 2}, ttl_seconds : {1, 2},
               max_memory_bytes : {20}, error_mode : {WARN}]
    /\ cache = NoEntries
    /\ access_times = NoEntries
    /\ total_memory_bytes = 0
    /\ consecutive_errors = 0
    /\ circuit_open = FALSE
    /\ clock = 0
    /\ load = 0
    /\ op = Done("init", "none", "none", "none", "none", << >>, << >>)
    /\ cache_lock = FALSE
    /\ acquired = << >>
    /\ task_pc = [t \in Tasks |-> "idle"]
    /\ task_loc = [t \in Tasks |-> NoLocals]

\* ================================================ CircuitBreakerRegistry
regVars == <<breakers, created, reg_ev>>

\* what the latest registry call was and returned: the breaker object, by
\* the number it was constructed as, 0 for None
RegEvent(name, n, threshold, returned) ==
    [op |-> name, name |-> n, threshold |-> threshold, returned |-> returned]

\* CircuitBreakerRegistry.__init__
RegistryInit ==
    /\ breakers = NoEntries
    /\ created = 0
    /\ reg_ev = RegEvent("init", "none", 0, 0)

\* ================================================ cached_search, variables
searchVars == <<w_pc, w_cur, w_done, w_prev>>

\* the record of a call of the wrapper that has not got anywhere yet
NoCall == [fn |-> "none", query |-> "none", looked_up |-> FALSE,
           looked_at |-> 0, hit |-> FALSE, invoked |-> FALSE,
           execution_time |-> 0, set_called |-> FALSE, stored |-> FALSE,
           stored_at |-> 0, returned |-> "none"]

\* no function is wrapped
SearchOff ==
    /\ w_pc = 0
    /\ w_cur = 0
    /\ w_done = 0
    /\ w_prev = 0

\* =============================================== EmbeddingCache, variables
embVars == <<emb_max_size, emb_cache, access_order, emb_used, emb_ops,
             emb_ev>>

\* what a call of the embedding cache did: the key it was about, whether
\* that key was cached and the cache full when it started, the key used
\* least recently then, the keys evicted, and the result
EmbDone(name, key, result, evicted) ==
    [op |-> name, key |-> key, result |-> result, evicted |-> evicted,
     was_cached |-> key \in DOMAIN emb_cache,
     was_full |-> Cardinality(DOMAIN emb_cache) >= emb_max_size,
     lru_before |-> {k \in DOMAIN emb_cache :
                       \A j \in DOMAIN emb_cache : emb_used[k] <= emb_used[j]}]

\* no embedding cache is constructed
EmbOff ==
    /\ emb_max_size = 0
    /\ emb_cache = 0
    /\ access_order = 0
    /\ emb_used = 0
    /\ emb_ops = 0
    /\ emb_ev = 0

\* ================================================= ErrorHandler, variables
handlerVars == <<max_history, error_counts, error_history, arrivals,
                 err_stats>>

\* no error handler is constructed
HandlerOff ==
    /\ max_history = 0
    /\ error_counts = 0
    /\ error_history = 0
    /\ arrivals = 0
    /\ err_stats = 0

\* ============================================== CacheStatistics, variables
statsVars == <<stats, stats_lock, g_pc, g_todo, g_recorded, g_calls, sn_pc,
               snapshot>>

\* tasks calling QueryCache.get at the same time
Getters == {"g1", "g2"}

\* CacheStatistics.__init__, after n failed requests
StatsAfter(n) ==
    [hits |-> 0, misses |-> 0, errors |-> n, total_requests |-> n,
     cache_saves |-> 0]

\* get_stats() has not returned anything yet
NoSnapshot == [hits |-> 0, misses |-> 0, errors |-> 0, total_requests |-> 0,
               taken |-> FALSE]

\* no statistics are kept
StatsOff ==
    /\ stats = 0
    /\ stats_lock = 0
    /\ g_pc = 0
    /\ g_todo = 0
    /\ g_recorded = 0
    /\ g_calls = 0
    /\ sn_pc = 0
    /\ snapshot = 0

\* ================================== get_cache / get_embedding_cache, variables
singletonVars == <<si_instance, si_config, si_lock, si_built, si_pc, si_got>>

\* the two module globals: _query_cache and _embedding_cache
Globals == {"query_cache", "embedding_cache"}

\* tasks calling get_cache() / get_embedding_cache() at the same time
Askers == {"t1", "t2"}

\* the module as imported, with nobody about to call
SingletonOff ==
    /\ si_instance = 0
    /\ si_config = 0
    /\ si_lock = 0
    /\ si_built = 0
    /\ si_pc = 0
    /\ si_got = 0

\* no registry is constructed
RegistryOff ==
    /\ breakers = 0
    /\ created = 0
    /\ reg_ev = 0

\* ===================================== call and async_call in step, variables
pairVars == <<pair>>

\* no pair of breakers is constructed
PairOff == pair = 0

\* ======================================= QueryCache, the two locks, variables
lockVars == <<lk>>

\* no task calls the cache
LockOff == lk = 0

\* --------------------------------------- what each run leaves untouched
breakerFrame == <<retryVars, cacheVars, raceVars, regVars, searchVars,
    embVars, handlerVars, statsVars, singletonVars, pairVars, lockVars>>
retryFrame == <<breakerVars, cacheVars, raceVars, regVars, searchVars,
    embVars, handlerVars, statsVars, singletonVars, pairVars, lockVars>>
cacheFrame == <<breakerVars, retryVars, raceVars, regVars, searchVars,
    embVars, handlerVars, statsVars, singletonVars, pairVars, lockVars>>
raceFrame == <<breakerVars, retryVars, regVars, searchVars, embVars,
    handlerVars, statsVars, singletonVars, pairVars, lockVars, qc, load, op,
    errorVars>>
regFrame == <<breakerVars, retryVars, cacheVars, raceVars, searchVars,
    embVars, handlerVars, statsVars, singletonVars, pairVars, lockVars>>
searchFrame == <<breakerVars, retryVars, raceVars, regVars, embVars,
    handlerVars, statsVars, singletonVars, pairVars, lockVars>>
embFrame == <<breakerVars, retryVars, cacheVars, raceVars, regVars,
    searchVars, handlerVars, statsVars, singletonVars, pairVars, lockVars>>
handlerFrame == <<breakerVars, retryVars, cacheVars, raceVars, regVars,
    searchVars, embVars, statsVars, singletonVars, pairVars, lockVars>>
statsFrame == <<breakerVars, retryVars, raceVars, regVars, searchVars,
    embVars, handlerVars, singletonVars, pairVars, lockVars>>
singletonFrame == <<breakerVars, retryVars, cacheVars, raceVars, regVars,
    searchVars, embVars, handlerVars, statsVars, pairVars, lockVars>>
pairFrame == <<breakerVars, retryVars, cacheVars, raceVars, regVars,
    searchVars, embVars, handlerVars, statsVars, singletonVars, lockVars>>
lockFrame == <<breakerVars, retryVars, cacheVars, raceVars, regVars,
    searchVars, embVars, handlerVars, statsVars, singletonVars, pairVars>>

\* ======================================================= CircuitBreaker
\* ServiceStatus
CLOSED == "closed"
OPEN == "open"
HALF_OPEN == "half_open"

\* via: "call" or "async_call", the method the step belongs to
Event(kind, c, via, ra) ==
    [kind |-> kind, caller |-> c, via |-> via, retry_after |-> ra]

Method(where) == IF where = "in_call" THEN "call" ELSE "async_call"

\* timedelta(seconds=self.recovery_timeout), in ticks
TimeoutTicks == recovery_timeout * TicksPerSecond

\* datetime.now() - self.last_failure_time, in ticks (stamp present)
Elapsed == now - last_failure_time[1]

\* CircuitBreaker._should_attempt_reset
ShouldAttemptReset_GE ==
    /\ last_failure_time # << >>
    /\ Elapsed >= TimeoutTicks

ShouldAttemptReset ==
    /\ last_failure_time # << >>
    /\ Elapsed > TimeoutTicks

\* CircuitBreaker._time_until_reset: max(0, int(recovery_timeout - elapsed));
\* int() truncates toward zero
TruncToSeconds(ticks) ==
    IF ticks >= 0 THEN ticks \div TicksPerSecond
                  ELSE -((-ticks) \div TicksPerSecond)

TimeUntilReset_RoundUp ==
    IF last_failure_time = << >> THEN 0
    ELSE Max(0, TruncToSeconds(TimeoutTicks - Elapsed + TicksPerSecond - 1))

TimeUntilReset ==
    IF last_failure_time = << >> THEN 0
    ELSE Max(0, TruncToSeconds(TimeoutTicks - Elapsed))

\* CircuitBreaker._on_success
OnSuccess_KeepCount ==
    /\ status' = CLOSED
    /\ UNCHANGED <<failure_count, last_failure_time>>

OnSuccess ==
    /\ failure_count' = 0
    /\ status' = CLOSED
    /\ UNCHANGED last_failure_time

\* CircuitBreaker._on_failure
OnFailure_GT ==
    /\ failure_count' = failure_count + 1
    /\ last_failure_time' = <<now>>
    /\ status' = IF failure_count + 1 > failure_threshold THEN OPEN ELSE status

OnFailure ==
    /\ failure_count' = failure_count + 1
    /\ last_failure_time' = <<now>>
    /\ status' = IF failure_count + 1 >= failure_threshold THEN OPEN ELSE status

\* A caller inside the synchronous call() occupies the only thread: nobody
\* else runs until func returns or raises.
ThreadFree == \A c \in Callers : pc[c] # "in_call"

\* The gate at the head of call / async_call: the caller is let through,
\* moving an OPEN breaker whose timeout has elapsed to HALF_OPEN first.
Gate(c, where) ==
    /\ pc[c] = "idle"
    /\ ThreadFree
    /\ status = OPEN => ShouldAttemptReset
    /\ status' = IF status = OPEN THEN HALF_OPEN ELSE status
    /\ entered' = [entered EXCEPT ![c] =
                     IF status = OPEN THEN "probe" ELSE status]
    /\ pc' = [pc EXCEPT ![c] = where]
    /\ ev' = Event("enter", c, Method(where), 0)
    /\ UNCHANGED <<failure_threshold, recovery_timeout, failure_count,
                   last_failure_time, now>>

\* raise TransientError(..., {"retry_after": self._time_until_reset()})
Refuse(c, where) ==
    /\ pc[c] = "idle"
    /\ ThreadFree
    /\ status = OPEN
    /\ ~ShouldAttemptReset
    /\ ev' = Event("reject", c, Method(where), TimeUntilReset)
    /\ UNCHANGED <<failure_threshold, recovery_timeout, failure_count,
                   last_failure_time, status, now, pc, entered>>

Leave(c, kind) ==
    /\ pc' = [pc EXCEPT ![c] = "idle"]
    /\ entered' = [entered EXCEPT ![c] = "none"]
    /\ ev' = Event(kind, c, Method(pc[c]), 0)
    /\ UNCHANGED <<failure_threshold, recovery_timeout, now>>

\* CircuitBreaker.call
Call_Enter(c) == Gate(c, "in_call")

Call_Reject(c) == Refuse(c, "in_call")

Call_Return(c) ==
    /\ pc[c] = "in_call"
    /\ OnSuccess
    /\ Leave(c, "success")

Call_RaiseExpected(c) ==
    /\ pc[c] = "in_call"
    /\ OnFailure
    /\ Leave(c, "failure")

\* an exception outside expected_exception passes through both handlers
Call_RaiseOther(c) ==
    /\ pc[c] = "in_call"
    /\ UNCHANGED <<failure_count, last_failure_time, status>>
    /\ Leave(c, "other")

\* CircuitBreaker.async_call
AsyncCall_Enter(c) == Gate(c, "in_async")

AsyncCall_Reject(c) == Refuse(c, "in_async")

AsyncCall_Return(c) ==
    /\ pc[c] = "in_async"
    /\ ThreadFree
    /\ OnSuccess
    /\ Leave(c, "success")

AsyncCall_RaiseExpected(c) ==
    /\ pc[c] = "in_async"
    /\ ThreadFree
    /\ OnFailure
    /\ Leave(c, "failure")

AsyncCall_RaiseOther(c) ==
    /\ pc[c] = "in_async"
    /\ ThreadFree
    /\ UNCHANGED <<failure_count, last_failure_time, status>>
    /\ Leave(c, "other")

\* isinstance(asyncio.CancelledError(), self.expected_exception): the
\* parameter is a Type[Exception], CancelledError is a BaseException
CancelMatches_Exception == TRUE

CancelMatches == FALSE

\* the task suspended at await func is cancelled: CancelledError is raised
\* at the await and leaves async_call
AsyncCall_Cancel(c) ==
    /\ pc[c] = "in_async"
    /\ ThreadFree
    /\ IF CancelMatches
       THEN OnFailure
       ELSE UNCHANGED <<failure_count, last_failure_time, status>>
    /\ Leave(c, "cancel")

\* the clock advances by one tick
Tick ==
    /\ now < MaxTime
    /\ now' = now + 1
    /\ ev' = Event("tick", 0, "none", 0)
    /\ UNCHANGED <<failure_threshold, recovery_timeout, failure_count,
                   last_failure_time, status, pc, entered>>

\* CircuitBreaker.__init__
BreakerInit ==
    /\ failure_threshold \in 1..MaxThreshold
    /\ recovery_timeout \in 1..MaxRecoveryTimeout
    /\ failure_count = 0
    /\ last_failure_time = << >>
    /\ status = CLOSED
    /\ now = 0
    /\ pc = [c \in Callers |-> "idle"]
    /\ entered = [c \in Callers |-> "none"]
    /\ ev = Event("init", 0, "none", 0)

\* no wrapped call is in progress
RetryOff ==
    /\ cfg = 0
    /\ r_pc = 0
    /\ attempt = 0
    /\ outcomes = 0
    /\ last_exception = 0
    /\ delivered = 0
    /\ sleeps = 0
    /\ last_sleep = 0
    /\ jit = 0

Init == BreakerInit /\ RetryOff /\ CacheOff /\ RaceOff /\ RegistryOff
    /\ SearchOff /\ EmbOff /\ HandlerOff /\ StatsOff /\ SingletonOff
    /\ PairOff /\ LockOff

Next ==
    \/ \E c \in Callers : Call_Enter(c) /\ UNCHANGED breakerFrame
    \/ \E c \in Callers : Call_Reject(c) /\ UNCHANGED breakerFrame
    \/ \E c \in Callers : Call_Return(c) /\ UNCHANGED breakerFrame
    \/ \E c \in Callers : Call_RaiseExpected(c) /\ UNCHANGED breakerFrame
    \/ \E c \in Callers : Call_RaiseOther(c) /\ UNCHANGED breakerFrame
    \/ \E c \in Callers : AsyncCall_Enter(c) /\ UNCHANGED breakerFrame
    \/ \E c \in Callers : AsyncCall_Reject(c) /\ UNCHANGED breakerFrame
    \/ \E c \in Callers : AsyncCall_Return(c) /\ UNCHANGED breakerFrame
    \/ \E c \in Callers : AsyncCall_RaiseExpected(c) /\ UNCHANGED breakerFrame
    \/ \E c \in Callers : AsyncCall_RaiseOther(c) /\ UNCHANGED breakerFrame
    \/ \E c \in Callers : AsyncCall_Cancel(c) /\ UNCHANGED breakerFrame
    \/ Tick /\ UNCHANGED breakerFrame

Spec == Init /\ [][Next]_vars

\* =================================================== retry_with_backoff
\* values the decorator arguments and RateLimitError.retry_after are drawn from
InitialDelays == {10, 20}
MaxDelays == {20, 50}
Bases == {2, 3}
RetryAfters == {5, 100}
\* 0.5 + random.random() lies in [0.5, 1.5): tenths 5..14
JitterFactors == 5..14

\* retry_on = TransientError: the TransientError family, RateLimitError included
RetryOn_Everything == {"transient", "rate_limit", "other"}

RetryOn == {"transient", "rate_limit"}

\* exceptions func may raise: a TransientError, a RateLimitError carrying
\* retry_after, or one outside retry_on (InvalidRequestError, TypeError, ...)
Raisable ==
    {[kind |-> "transient", retry_after |-> 0],
     [kind |-> "other", retry_after |-> 0]}
    \cup {[kind |-> "rate_limit", retry_after |-> r] : r \in RetryAfters}

Returned == [kind |-> "ok", retry_after |-> 0]

RECURSIVE Pow(_, _)
Pow(b, n) == IF n = 0 THEN 1 ELSE b * Pow(b, n - 1)

\* delay = min(initial_delay * (exponential_base ** attempt), max_delay)
BackoffDelay(a) ==
    Min(cfg.initial_delay * Pow(cfg.exponential_base, a), cfg.max_delay)

\* if jitter: delay *= (0.5 + random.random())
Jittered(d, f) == IF cfg.jitter THEN (d * f) \div 10 ELSE d

\* if isinstance(e, RateLimitError): delay = max(delay, e.retry_after)
RateLimitFloor_Min(d, e) ==
    IF e.kind = "rate_limit" THEN Min(d, e.retry_after) ELSE d

RateLimitFloor(d, e) ==
    IF e.kind = "rate_limit" THEN Max(d, e.retry_after) ELSE d

\* if attempt == max_retries - 1: the last round of the loop re-raises
LastRound_Early == attempt = cfg.max_retries - 2

LastRound == attempt = cfg.max_retries - 1

\* for attempt in range(max_retries): the loop body runs
InLoop_OneLess == r_pc = "call" /\ attempt < cfg.max_retries - 1

InLoop == r_pc = "call" /\ attempt < cfg.max_retries

\* return func(*args, **kwargs)
Wrapper_Return ==
    /\ InLoop
    /\ outcomes' = Append(outcomes, Returned)
    /\ delivered' = Len(outcomes) + 1
    /\ r_pc' = "returned"
    /\ UNCHANGED <<cfg, attempt, last_exception, sleeps, last_sleep, jit>>

\* except retry_on as e, in the last round: raise
Wrapper_GiveUp(e) ==
    /\ InLoop
    /\ e.kind \in RetryOn
    /\ LastRound
    /\ outcomes' = Append(outcomes, e)
    /\ last_exception' = Len(outcomes) + 1
    /\ delivered' = Len(outcomes) + 1
    /\ r_pc' = "raised"
    /\ UNCHANGED <<cfg, attempt, sleeps, last_sleep, jit>>

\* except retry_on as e, in an earlier round: compute the delay and sleep
Wrapper_Backoff(e, f) ==
    /\ InLoop
    /\ e.kind \in RetryOn
    /\ ~LastRound
    /\ outcomes' = Append(outcomes, e)
    /\ last_exception' = Len(outcomes) + 1
    /\ jit' = f
    /\ last_sleep' = RateLimitFloor(Jittered(BackoffDelay(attempt), f), e)
    /\ sleeps' = sleeps + 1
    /\ r_pc' = "sleep"
    /\ UNCHANGED <<cfg, attempt, delivered>>

\* an exception outside retry_on is not caught
Wrapper_Propagate(e) ==
    /\ InLoop
    /\ e.kind \notin RetryOn
    /\ outcomes' = Append(outcomes, e)
    /\ delivered' = Len(outcomes) + 1
    /\ r_pc' = "raised"
    /\ UNCHANGED <<cfg, attempt, last_exception, sleeps, last_sleep, jit>>

\* sleep(delay) is over: next round of the loop
Wrapper_Wake ==
    /\ r_pc = "sleep"
    /\ attempt' = attempt + 1
    /\ r_pc' = "call"
    /\ UNCHANGED <<cfg, outcomes, last_exception, delivered, sleeps,
                   last_sleep, jit>>

\* raise last_exception, after the loop; raising None is a TypeError
Wrapper_AfterLoop ==
    /\ r_pc = "call"
    /\ ~InLoop
    /\ r_pc' = IF last_exception = 0 THEN "type_error" ELSE "raised"
    /\ delivered' = last_exception
    /\ UNCHANGED <<cfg, attempt, outcomes, last_exception, sleeps,
                   last_sleep, jit>>

\* retry_with_backoff(...)(func) is called
RetryInit ==
    /\ cfg \in [max_retries : 0..MaxRetries, initial_delay : InitialDelays,
                max_delay : MaxDelays, exponential_base : Bases,
                jitter : BOOLEAN]
    /\ r_pc = "call"
    /\ attempt = 0
    /\ outcomes = << >>
    /\ last_exception = 0
    /\ delivered = 0
    /\ sleeps = 0
    /\ last_sleep = 0
    /\ jit = 0

\* the breaker is not involved in a run of the wrapper
BreakerOff ==
    /\ failure_threshold = 0
    /\ recovery_timeout = 0
    /\ failure_count = 0
    /\ last_failure_time = 0
    /\ status = 0
    /\ now = 0
    /\ pc = 0
    /\ entered = 0
    /\ ev = 0

RetryNext ==
    \/ Wrapper_Return /\ UNCHANGED retryFrame
    \/ \E e \in Raisable : Wrapper_GiveUp(e) /\ UNCHANGED retryFrame
    \/ \E e \in Raisable :
         \E f \in (IF cfg.jitter THEN JitterFactors ELSE {10}) :
           Wrapper_Backoff(e, f) /\ UNCHANGED retryFrame
    \/ \E e \in Raisable : Wrapper_Propagate(e) /\ UNCHANGED retryFrame
    \/ Wrapper_Wake /\ UNCHANGED retryFrame
    \/ Wrapper_AfterLoop /\ UNCHANGED retryFrame

InitRetry == RetryInit /\ BreakerOff /\ CacheOff /\ RaceOff /\ RegistryOff
    /\ SearchOff /\ EmbOff /\ HandlerOff /\ StatsOff /\ SingletonOff
    /\ PairOff /\ LockOff

RetrySpec == InitRetry /\ [][RetryNext]_vars

\* ===================================================== QueryCache, run
InitCache == CacheInit /\ BreakerOff /\ RetryOff /\ RaceOff /\ RegistryOff
    /\ SearchOff /\ EmbOff /\ HandlerOff /\ StatsOff /\ SingletonOff
    /\ PairOff /\ LockOff

CacheNext ==
    \/ \E q \in load.queries : \E f \in load.get_faults :
         QC_Get(q, f) /\ UNCHANGED cacheFrame
    \/ \E q \in load.queries : \E v \in load.values :
         \E f \in load.set_faults :
         QC_Set(q, v, f) /\ UNCHANGED cacheFrame
    \/ QC_Clear /\ UNCHANGED cacheFrame
    \/ QC_ClearPattern /\ UNCHANGED cacheFrame
    \/ QC_Tick /\ UNCHANGED cacheFrame

CacheSpec == InitCache /\ [][CacheNext]_vars

\* ================================================ QueryCache step by step, run
InitRace == RaceInit /\ BreakerOff /\ RetryOff /\ RegistryOff /\ SearchOff
    /\ EmbOff /\ HandlerOff /\ StatsOff /\ SingletonOff /\ PairOff /\ LockOff

RaceNext ==
    \/ \E t \in Tasks : Race_SetBegin(t) /\ UNCHANGED raceFrame
    \/ \E t \in Tasks : Race_GetBegin(t) /\ UNCHANGED raceFrame
    \/ \E t \in Tasks : Race_Acquire(t) /\ UNCHANGED raceFrame
    \/ \E t \in Tasks : Race_SetEvict(t) /\ UNCHANGED raceFrame
    \/ \E t \in Tasks : Race_SetWrite(t) /\ UNCHANGED raceFrame
    \/ \E t \in Tasks : Race_GetRead(t) /\ UNCHANGED raceFrame
    \/ Race_Tick /\ UNCHANGED raceFrame

RaceSpec == InitRace /\ [][RaceNext]_vars

\* =========================================== CircuitBreakerRegistry, run
\* dependency names, and the failure_threshold values passed to register
Names == {"service1", "service2"}
Thresholds == {1, 2}

\* name in self._breakers
Registered_Never(n) == FALSE

Registered(n) == n \in DOMAIN breakers

\* registry.register(name, failure_threshold=th)
Reg_Register(n, th) ==
    /\ IF Registered(n)
       THEN UNCHANGED <<breakers, created>>
       ELSE /\ created' = created + 1
            /\ breakers' = With(breakers, n,
                                [id |-> created + 1, failure_threshold |-> th,
                                 failure_count |-> 0, status |-> CLOSED])
    /\ reg_ev' = RegEvent("register", n, th, breakers'[n].id)

\* registry.get(name)
Reg_Get(n) ==
    /\ reg_ev' = RegEvent("get", n, 0,
                          IF n \in DOMAIN breakers THEN breakers[n].id ELSE 0)
    /\ UNCHANGED <<breakers, created>>

\* a call through a registered, closed breaker fails: _on_failure
Reg_CallFails(n) ==
    /\ n \in DOMAIN breakers
    /\ breakers[n].status = CLOSED
    /\ LET b == breakers[n]
           count == b.failure_count + 1
       IN breakers' = [breakers EXCEPT
                         ![n].failure_count = count,
                         ![n].status = IF count >= b.failure_threshold
                                       THEN OPEN ELSE CLOSED]
    /\ reg_ev' = RegEvent("call", n, 0, 0)
    /\ UNCHANGED created

\* a call through a registered breaker, closed or past its recovery
\* timeout, succeeds: _on_success
Reg_CallSucceeds(n) ==
    /\ n \in DOMAIN breakers
    /\ breakers' = [breakers EXCEPT ![n].failure_count = 0,
                                    ![n].status = CLOSED]
    /\ reg_ev' = RegEvent("call", n, 0, 0)
    /\ UNCHANGED created

InitRegistry == RegistryInit /\ BreakerOff /\ RetryOff /\ CacheOff /\ RaceOff
    /\ SearchOff /\ EmbOff /\ HandlerOff /\ StatsOff /\ SingletonOff
    /\ PairOff /\ LockOff

RegistryNext ==
    \/ \E n \in Names : \E th \in Thresholds :
         Reg_Register(n, th) /\ UNCHANGED regFrame
    \/ \E n \in Names : Reg_Get(n) /\ UNCHANGED regFrame
    \/ \E n \in Names : Reg_CallFails(n) /\ UNCHANGED regFrame
    \/ \E n \in Names : Reg_CallSucceeds(n) /\ UNCHANGED regFrame

RegistrySpec == InitRegistry /\ [][RegistryNext]_vars

\* ============================================================ cached_search
\* The clock of this run counts quarters of a second, and so does the TTL
\* of the cache it uses.

\* 0.5 of   if execution_time > 0.5,   in quarters of a second
SlowThreshold == 2

\* the clock of the run stops here
MaxSearchClock == 8

\* time.time() - start_time of one invocation: below, at and above 0.5 s
ExecutionTimes == {1, 2, 3}

\* the wrapped func: one returning a list of results, one returning None,
\* one returning more than a tenth of the cache's memory budget, one raising
SearchFns == {"search", "search_none", "search_big", "search_raises"}

\* what   await func(*args, **kwargs)   gives
FnResult(fn) ==
    CASE fn = "search" -> "v2"
      [] fn = "search_none" -> NONE
      [] fn = "search_big" -> "big"
      [] fn = "search_raises" -> "raised"

\* args[0]: a query text, or an empty one
SearchQueries == {"a", ""}

\* if execution_time > 0.5
Slow_AtLeast(execution_time) == execution_time >= SlowThreshold

Slow(execution_time) == execution_time > SlowThreshold

\* if cached_result is not None
Served(result) == result \notin {ABSENT, NONE}

\* wrapper(*args): get_cache(), the query text, and   await cache.get(...)
\* unless the query is empty
S_Lookup(fn, q) ==
    /\ w_pc = "idle"
    /\ IF q = ""
       THEN /\ w_cur' = [NoCall EXCEPT !.fn = fn, !.query = q]
            /\ w_pc' = "bypass"
            /\ UNCHANGED cacheVars
       ELSE /\ QC_Get(q, "none")
            /\ w_cur' = [NoCall EXCEPT !.fn = fn, !.query = q,
                                       !.looked_up = TRUE,
                                       !.looked_at = clock,
                                       !.hit = Served(op'.result),
                                       !.returned = op'.result]
            /\ w_pc' = IF Served(op'.result) THEN "hit" ELSE "miss"
    /\ UNCHANGED <<w_done, w_prev>>

\* result = await func(*args, **kwargs), which takes d quarters of a second
S_Invoke(d) ==
    /\ w_pc \in {"miss", "bypass"}
    /\ clock + d <= MaxSearchClock
    /\ clock' = clock + d
    /\ w_cur' = [w_cur EXCEPT !.invoked = TRUE, !.execution_time = d,
                              !.returned = FnResult(w_cur.fn)]
    /\ w_pc' = IF w_cur.fn = "search_raises" THEN "raise"
               ELSE IF w_pc = "bypass" THEN "return"
               ELSE "timed"
    /\ UNCHANGED <<qc, load, op, tableVars, errorVars, w_done, w_prev>>

\* if execution_time > 0.5: await cache.set(query_text, result, ...)
S_Store ==
    /\ w_pc = "timed"
    /\ Slow(w_cur.execution_time)
    /\ QC_Set(w_cur.query, w_cur.returned, "none")
    /\ w_cur' = [w_cur EXCEPT !.set_called = TRUE,
                              !.stored = (op'.result = "true"),
                              !.stored_at = clock]
    /\ w_pc' = "return"
    /\ UNCHANGED <<w_done, w_prev>>

\* the branch not taken: the result is returned without a write
S_Skip ==
    /\ w_pc = "timed"
    /\ ~Slow(w_cur.execution_time)
    /\ w_pc' = "return"
    /\ UNCHANGED <<cacheVars, w_cur, w_done, w_prev>>

\* return cached_result / return result / raise
S_Return ==
    /\ w_pc \in {"hit", "return", "raise"}
    /\ w_prev' = w_done
    /\ w_done' = w_cur
    /\ w_cur' = NoCall
    /\ w_pc' = "idle"
    /\ UNCHANGED cacheVars

\* time passes between two calls of the wrapper
S_Tick ==
    /\ w_pc = "idle"
    /\ clock < MaxSearchClock
    /\ clock' = clock + 1
    /\ UNCHANGED <<qc, load, op, tableVars, errorVars>>
    /\ UNCHANGED searchVars

\* get_cache(): the global cache, in mode WARN, empty; a TTL of one second
SearchInit ==
    /\ qc = [on |-> TRUE, max_size |-> 2, ttl_seconds |-> 4,
             max_memory_bytes |-> 20, error_mode |-> WARN]
    /\ cache = NoEntries
    /\ access_times = NoEntries
    /\ total_memory_bytes = 0
    /\ consecutive_errors = 0
    /\ circuit_open = FALSE
    /\ clock = 0
    /\ load = 0
    /\ op = Done("init", "none", "none", "none", "none", << >>, << >>)
    /\ w_pc = "idle"
    /\ w_cur = NoCall
    /\ w_done = NoCall
    /\ w_prev = NoCall

InitSearch == SearchInit /\ BreakerOff /\ RetryOff /\ RaceOff /\ RegistryOff
    /\ EmbOff /\ HandlerOff /\ StatsOff /\ SingletonOff /\ PairOff /\ LockOff

SearchNext ==
    \/ \E fn \in SearchFns, q \in SearchQueries :
         S_Lookup(fn, q) /\ UNCHANGED searchFrame
    \/ \E d \in ExecutionTimes : S_Invoke(d) /\ UNCHANGED searchFrame
    \/ S_Store /\ UNCHANGED searchFrame
    \/ S_Skip /\ UNCHANGED searchFrame
    \/ S_Return /\ UNCHANGED searchFrame
    \/ S_Tick /\ UNCHANGED searchFrame

SearchSpec == InitSearch /\ [][SearchNext]_vars

\* =========================================================== EmbeddingCache
\* calls made to one embedding cache
MaxEmbOps == 6

\* texts whose embedding is looked up, one of them empty
Texts == {"x", "y", "z", ""}

\* embeddings the callers pass; "empty" is the empty list
Embeddings == {"e1", "e2", "empty"}

\* get_embedding_key: None ("none") for an empty text, else the md5 digest
\* (taken as injective)
EmbeddingKey(text) == IF text = "" THEN "none" ELSE text

\* self._access_order.remove(key); self._access_order.append(key)
MoveToEnd_Keep(order, key) == order

MoveToEnd(order, key) ==
    Append(SelectSeq(order, LAMBDA k : k # key), key)

RECURSIVE EmbEvictLoop(_)
\* while len(self._cache) >= self._max_size: pop(0) and del, on
\* s = [cache, order, evicted]
EmbEvictLoop(s) ==
    IF Cardinality(DOMAIN s.cache) >= emb_max_size /\ s.order # << >>
    THEN EmbEvictLoop([cache |-> Without(s.cache, Head(s.order)),
                       order |-> Tail(s.order),
                       evicted |-> Append(s.evicted, Head(s.order))])
    ELSE s

\* await emb_cache.get(text)
Emb_Get(text) ==
    LET key == EmbeddingKey(text) IN
    /\ emb_max_size > 0
    /\ emb_ops < MaxEmbOps
    /\ emb_ops' = emb_ops + 1
    /\ IF key # "none" /\ key \in DOMAIN emb_cache
       THEN /\ access_order' = MoveToEnd(access_order, key)
            /\ emb_used' = With(emb_used, key, emb_ops + 1)
            /\ emb_ev' = EmbDone("get", key, emb_cache[key], << >>)
       ELSE /\ emb_ev' = EmbDone("get", key, ABSENT, << >>)
            /\ UNCHANGED <<access_order, emb_used>>
    /\ UNCHANGED <<emb_max_size, emb_cache>>

\* await emb_cache.set(text, embedding)
Emb_Set(text, embedding) ==
    LET key == EmbeddingKey(text)
        s == EmbEvictLoop([cache |-> emb_cache, order |-> access_order,
                           evicted |-> << >>])
    IN
    /\ emb_max_size > 0
    /\ emb_ops < MaxEmbOps
    /\ emb_ops' = emb_ops + 1
    /\ UNCHANGED emb_max_size
    /\ IF key = "none" \/ embedding = "empty"
       THEN /\ emb_ev' = EmbDone("set", key, "false", << >>)
            /\ UNCHANGED <<emb_cache, access_order, emb_used>>
       ELSE IF key \in DOMAIN emb_cache
       THEN /\ access_order' = MoveToEnd(access_order, key)
            /\ emb_used' = With(emb_used, key, emb_ops + 1)
            /\ emb_ev' = EmbDone("set", key, "true", << >>)
            /\ UNCHANGED emb_cache
       ELSE /\ emb_cache' = With(s.cache, key, embedding)
            /\ access_order' = Append(s.order, key)
            /\ emb_used' = With([k \in DOMAIN s.cache |-> emb_used[k]], key,
                                emb_ops + 1)
            /\ emb_ev' = EmbDone("set", key, "true", s.evicted)

\* await emb_cache.clear()
Emb_Clear ==
    /\ emb_max_size > 0
    /\ emb_ops < MaxEmbOps
    /\ emb_ops' = emb_ops + 1
    /\ emb_cache' = NoEntries
    /\ access_order' = << >>
    /\ emb_used' = NoEntries
    /\ emb_ev' = EmbDone("clear", "none", "true", << >>)
    /\ UNCHANGED emb_max_size

\* EmbeddingCache(max_size)
EmbInit ==
    /\ emb_max_size \in {1, 2}
    /\ emb_cache = NoEntries
    /\ access_order = << >>
    /\ emb_used = NoEntries
    /\ emb_ops = 0
    /\ emb_ev = [op |-> "init", key |-> "none", result |-> "none",
                 evicted |-> << >>, was_cached |-> FALSE, was_full |-> FALSE,
                 lru_before |-> {}]

InitEmb == EmbInit /\ BreakerOff /\ RetryOff /\ CacheOff /\ RaceOff
    /\ RegistryOff /\ SearchOff /\ HandlerOff /\ StatsOff /\ SingletonOff
    /\ PairOff /\ LockOff

EmbNext ==
    \/ \E text \in Texts : Emb_Get(text) /\ UNCHANGED embFrame
    \/ \E text \in Texts, embedding \in Embeddings :
         Emb_Set(text, embedding) /\ UNCHANGED embFrame
    \/ Emb_Clear /\ UNCHANGED embFrame

EmbSpec == InitEmb /\ [][EmbNext]_vars

\* ============================================================= ErrorHandler
\* errors handed to one handler
MaxErrors == 6

\* the errors handed over, by type(error).__name__ and str(error); a
\* TransientError is an AgenticRAGException and brings its own category
Errors ==
    { [type |-> "ValueError", message |-> "bad value"],
      [type |-> "ValueError", message |-> "rate limit hit"],
      [type |-> "ConnectionError", message |-> "refused"],
      [type |-> "TransientError", message |-> "transient"] }

\* error.category.value, or _categorize_error(error)
Category(e) ==
    IF e.type = "TransientError" THEN "transient"
    ELSE IF e.type \in {"ConnectionError", "TimeoutError"} THEN "transient"
    ELSE IF e.message = "rate limit hit" THEN "transient"
    ELSE "permanent"

\* the error_info record of e
ErrorInfo(e) ==
    [type |-> e.type, message |-> e.message, category |-> Category(e)]

\* error_history[-n:]   (all of it when n = 0, as -0 is 0)
LastOf(h, n) ==
    IF n = 0 \/ Len(h) <= n THEN h ELSE SubSeq(h, Len(h) - n + 1, Len(h))

\* if len(error_history) > max_history: error_history[-max_history:]
Trim_Oldest(h) == IF Len(h) > max_history THEN SubSeq(h, 1, max_history) ELSE h

Trim(h) == IF Len(h) > max_history THEN LastOf(h, max_history) ELSE h

\* error_counts[type] += 1 on a defaultdict(int)
CountUp(counts, type) ==
    With(counts, type, IF type \in DOMAIN counts THEN counts[type] + 1 ELSE 1)

\* handler.handle_error(error)
H_HandleError(e) ==
    /\ max_history > 0
    /\ Len(arrivals) < MaxErrors
    /\ arrivals' = Append(arrivals, ErrorInfo(e))
    /\ error_counts' = CountUp(error_counts, e.type)
    /\ error_history' = Trim(Append(error_history, ErrorInfo(e)))
    /\ UNCHANGED <<max_history, err_stats>>

RECURSIVE SumCounts(_)
\* sum(self.error_counts.values())
SumCounts(counts) ==
    IF DOMAIN counts = {} THEN 0
    ELSE LET t == CHOOSE x \in DOMAIN counts : TRUE
         IN counts[t] + SumCounts(Without(counts, t))

\* handler.get_error_stats()
H_GetErrorStats ==
    /\ max_history > 0
    /\ err_stats' = [total_errors |-> SumCounts(error_counts),
                     error_counts |-> error_counts,
                     recent_errors |-> LastOf(error_history, 10),
                     taken |-> TRUE]
    /\ UNCHANGED <<max_history, error_counts, error_history, arrivals>>

\* ErrorHandler(), and max_history as the caller sets it
HandlerInit ==
    /\ max_history \in {1, 2, 3}
    /\ error_counts = NoEntries
    /\ error_history = << >>
    /\ arrivals = << >>
    /\ err_stats = [total_errors |-> 0, error_counts |-> NoEntries,
                    recent_errors |-> << >>, taken |-> FALSE]

InitHandler == HandlerInit /\ BreakerOff /\ RetryOff /\ CacheOff /\ RaceOff
    /\ RegistryOff /\ SearchOff /\ EmbOff /\ StatsOff /\ SingletonOff
    /\ PairOff /\ LockOff

HandlerNext ==
    \/ \E e \in Errors : H_HandleError(e) /\ UNCHANGED handlerFrame
    \/ H_GetErrorStats /\ UNCHANGED handlerFrame

HandlerSpec == InitHandler /\ [][HandlerNext]_vars

\* ========================================================== CacheStatistics
\* Calls of QueryCache.get by concurrent tasks: the effect of a call on the
\* cache is one step, and each record_hit / record_miss / record_error it
\* makes is taken statement by statement, as is get_stats.

\* calls of get made in one run
MaxRequests == 3

\* async with self._lock of CacheStatistics can be entered
StatsLockFree_Always == TRUE

StatsLockFree == ~stats_lock

\* the field that record_hit / record_miss / record_error counts up first
CounterOf(kind) ==
    CASE kind = "hit" -> "hits" [] kind = "miss" -> "misses"
      [] kind = "error" -> "errors"

\* await cache.get(q) by task t: the lookup, up to its first record_* call
G_Call(t, q, fault) ==
    /\ g_pc[t] \in {"idle", "returned"}
    /\ g_calls < MaxRequests
    /\ g_calls' = g_calls + 1
    /\ QC_Get(q, fault)
    /\ g_todo' = [g_todo EXCEPT ![t] = op'.recorded]
    /\ g_recorded' = [g_recorded EXCEPT ![t] = << >>]
    /\ g_pc' = [g_pc EXCEPT ![t] = IF op'.recorded = << >> THEN "returned"
                                   ELSE "want_lock"]
    /\ UNCHANGED <<stats, stats_lock, sn_pc, snapshot>>

\* record_*: async with self._lock
St_Acquire(t) ==
    /\ g_pc[t] = "want_lock"
    /\ StatsLockFree
    /\ stats_lock' = TRUE
    /\ g_pc' = [g_pc EXCEPT ![t] = "inc_kind"]
    /\ UNCHANGED <<stats, g_todo, g_recorded, g_calls, sn_pc, snapshot>>
    /\ UNCHANGED cacheVars

\* the statements of record_* are over: the lock is released and the call
\* of get goes on to its next record_*, or returns
Recorded(t) ==
    /\ stats_lock' = FALSE
    /\ g_recorded' = [g_recorded EXCEPT ![t] = Append(@, Head(g_todo[t]))]
    /\ g_todo' = [g_todo EXCEPT ![t] = Tail(@)]
    /\ g_pc' = [g_pc EXCEPT ![t] = IF Tail(g_todo[t]) = << >> THEN "returned"
                                   ELSE "want_lock"]

\* self.hits += 1 / self.misses += 1 / self.errors += 1
St_IncKind(t) ==
    /\ g_pc[t] = "inc_kind"
    /\ stats' = [stats EXCEPT ![CounterOf(Head(g_todo[t]))] = @ + 1]
    /\ g_pc' = [g_pc EXCEPT ![t] = "inc_total"]
    /\ UNCHANGED <<stats_lock, g_todo, g_recorded, g_calls, sn_pc, snapshot>>
    /\ UNCHANGED cacheVars

\* self.total_requests += 1
St_IncTotal(t) ==
    /\ g_pc[t] = "inc_total"
    /\ stats' = [stats EXCEPT !.total_requests = @ + 1]
    /\ IF Head(g_todo[t]) = "hit"
       THEN /\ g_pc' = [g_pc EXCEPT ![t] = "inc_saved"]
            /\ UNCHANGED <<stats_lock, g_todo, g_recorded>>
       ELSE Recorded(t)
    /\ UNCHANGED <<g_calls, sn_pc, snapshot>>
    /\ UNCHANGED cacheVars

\* self.cache_saves_ms += time_saved_ms, counted in hits' worth
St_IncSaved(t) ==
    /\ g_pc[t] = "inc_saved"
    /\ stats' = [stats EXCEPT !.cache_saves = @ + 1]
    /\ Recorded(t)
    /\ UNCHANGED <<g_calls, sn_pc, snapshot>>
    /\ UNCHANGED cacheVars

\* get_stats: async with self._lock
Sn_Acquire ==
    /\ sn_pc = "idle"
    /\ StatsLockFree
    /\ stats_lock' = TRUE
    /\ sn_pc' = "read"
    /\ UNCHANGED <<stats, g_pc, g_todo, g_recorded, g_calls, snapshot>>
    /\ UNCHANGED cacheVars

\* get_stats: the dict it returns
Sn_Read ==
    /\ sn_pc = "read"
    /\ snapshot' = [hits |-> stats.hits, misses |-> stats.misses,
                    errors |-> stats.errors,
                    total_requests |-> stats.total_requests, taken |-> TRUE]
    /\ stats_lock' = FALSE
    /\ sn_pc' = "idle"
    /\ UNCHANGED <<stats, g_pc, g_todo, g_recorded, g_calls>>
    /\ UNCHANGED cacheVars

\* time.time() moves on, until an entry written at once has expired
St_Tick ==
    /\ clock <= qc.ttl_seconds
    /\ clock' = clock + 1
    /\ UNCHANGED <<qc, load, op, tableVars, errorVars>>
    /\ UNCHANGED statsVars

\* a cache in mode WARN or RAISE, new or after nine failed requests in a
\* row, two tasks about to call get and one about to call get_stats
StatsInit ==
    /\ qc \in [on : {TRUE}, max_size : {1}, ttl_seconds : {1},
               max_memory_bytes : {10}, error_mode : {WARN, RAISE}]
    /\ cache = NoEntries
    /\ access_times = NoEntries
    /\ total_memory_bytes = 0
    /\ consecutive_errors \in {0, MaxConsecutiveErrors - 1}
    /\ circuit_open = FALSE
    /\ clock = 0
    /\ load = 0
    /\ op = Done("init", "none", "none", "none", "none", << >>, << >>)
    /\ stats = StatsAfter(consecutive_errors)
    /\ stats_lock = FALSE
    /\ g_pc = [t \in Getters |-> "idle"]
    /\ g_todo = [t \in Getters |-> << >>]
    /\ g_recorded = [t \in Getters |-> << >>]
    /\ g_calls = 0
    /\ sn_pc = "idle"
    /\ snapshot = NoSnapshot

InitStats == StatsInit /\ BreakerOff /\ RetryOff /\ RaceOff /\ RegistryOff
    /\ SearchOff /\ EmbOff /\ HandlerOff /\ SingletonOff /\ PairOff
    /\ LockOff

StatsNext ==
    \/ \E t \in Getters, q \in {"a", ""}, f \in {"none", "body"} :
         G_Call(t, q, f) /\ UNCHANGED statsFrame
    \/ \E t \in Getters : St_Acquire(t) /\ UNCHANGED statsFrame
    \/ \E t \in Getters : St_IncKind(t) /\ UNCHANGED statsFrame
    \/ \E t \in Getters : St_IncTotal(t) /\ UNCHANGED statsFrame
    \/ \E t \in Getters : St_IncSaved(t) /\ UNCHANGED statsFrame
    \/ Sn_Acquire /\ UNCHANGED statsFrame
    \/ Sn_Read /\ UNCHANGED statsFrame
    \/ QC_Set("a", "v1", "none") /\ UNCHANGED <<statsVars, statsFrame>>
    \/ St_Tick /\ UNCHANGED statsFrame

StatsSpec == InitStats /\ [][StatsNext]_vars

\* ========================================== get_cache / get_embedding_cache
\* A call is taken statement by statement; an instance is the number of the
\* construction that made it, and 0 is None.

\* async with _cache_creation_lock / _embedding_cache_lock can be entered
CreationLockFree_Always(g) == TRUE

CreationLockFree(g) == ~si_lock[g]

\* what the two constructor calls of the locked block do: the first one
\* succeeds, or it raises and the minimal one succeeds, or both raise
Constructions == {"default", "minimal", "raises"}

\* if _query_cache is None:   outside the lock
Si_Check(g, t) ==
    /\ si_pc[g][t] \in {"idle", "returned", "raised"}
    /\ si_pc' = [si_pc EXCEPT ![g][t] = IF si_instance[g] = 0 THEN "want_lock"
                                        ELSE "return"]
    /\ UNCHANGED <<si_instance, si_config, si_lock, si_built, si_got>>

\* async with _cache_creation_lock:
Si_Acquire(g, t) ==
    /\ si_pc[g][t] = "want_lock"
    /\ CreationLockFree(g)
    /\ si_lock' = [si_lock EXCEPT ![g] = TRUE]
    /\ si_pc' = [si_pc EXCEPT ![g][t] = "locked"]
    /\ UNCHANGED <<si_instance, si_config, si_built, si_got>>

\* if _query_cache is None:   inside the lock; the lock is left if it is not
Si_Recheck(g, t) ==
    /\ si_pc[g][t] = "locked"
    /\ IF si_instance[g] = 0
       THEN /\ si_pc' = [si_pc EXCEPT ![g][t] = "construct"]
            /\ UNCHANGED si_lock
       ELSE /\ si_pc' = [si_pc EXCEPT ![g][t] = "return"]
            /\ si_lock' = [si_lock EXCEPT ![g] = FALSE]
    /\ UNCHANGED <<si_instance, si_config, si_built, si_got>>

\* try: _query_cache = QueryCache(...) except Exception: the minimal one;
\* then the lock is left
Si_Construct(g, t, how) ==
    /\ si_pc[g][t] = "construct"
    /\ si_lock' = [si_lock EXCEPT ![g] = FALSE]
    /\ IF how = "raises"
       THEN /\ si_pc' = [si_pc EXCEPT ![g][t] = "raised"]
            /\ si_got' = [si_got EXCEPT ![g][t] = 0]
            /\ UNCHANGED <<si_instance, si_config, si_built>>
       ELSE /\ si_built' = [si_built EXCEPT ![g] = @ + 1]
            /\ si_instance' = [si_instance EXCEPT ![g] = si_built[g] + 1]
            /\ si_config' = [si_config EXCEPT ![g] = how]
            /\ si_pc' = [si_pc EXCEPT ![g][t] = "return"]
            /\ UNCHANGED si_got

\* return _query_cache
Si_Return(g, t) ==
    /\ si_pc[g][t] = "return"
    /\ si_got' = [si_got EXCEPT ![g][t] = si_instance[g]]
    /\ si_pc' = [si_pc EXCEPT ![g][t] = "returned"]
    /\ UNCHANGED <<si_instance, si_config, si_lock, si_built>>

\* the module as imported: both globals None, both locks free
SingletonInit ==
    /\ si_instance = [g \in Globals |-> 0]
    /\ si_config = [g \in Globals |-> "none"]
    /\ si_lock = [g \in Globals |-> FALSE]
    /\ si_built = [g \in Globals |-> 0]
    /\ si_pc = [g \in Globals |-> [t \in Askers |-> "idle"]]
    /\ si_got = [g \in Globals |-> [t \in Askers |-> 0]]

InitSingleton == SingletonInit /\ BreakerOff /\ RetryOff /\ CacheOff
    /\ RaceOff /\ RegistryOff /\ SearchOff /\ EmbOff /\ HandlerOff
    /\ StatsOff /\ PairOff /\ LockOff

SingletonNext ==
    \/ \E g \in Globals, t \in Askers :
         Si_Check(g, t) /\ UNCHANGED singletonFrame
    \/ \E g \in Globals, t \in Askers :
         Si_Acquire(g, t) /\ UNCHANGED singletonFrame
    \/ \E g \in Globals, t \in Askers :
         Si_Recheck(g, t) /\ UNCHANGED singletonFrame
    \/ \E g \in Globals, t \in Askers, how \in Constructions :
         Si_Construct(g, t, how) /\ UNCHANGED singletonFrame
    \/ \E g \in Globals, t \in Askers :
         Si_Return(g, t) /\ UNCHANGED singletonFrame

SingletonSpec == InitSingleton /\ [][SingletonNext]_vars

\* ================================================ call and async_call in step
\* what the wrapped function does in one call
Outcomes == {"return", "expected", "other"}

\* ticks the wrapped function runs for
Durations == {0, 1}

\* CircuitBreaker.__init__, as an object
NewBreaker(threshold, timeout) ==
    [failure_threshold |-> threshold,
     recovery_timeout |-> timeout,
     failure_count |-> 0,
     last_failure_time |-> << >>,
     status |-> CLOSED]

\* CircuitBreaker._should_attempt_reset of breaker b at time t
ShouldAttemptResetOf(b, t) ==
    /\ b.last_failure_time # << >>
    /\ t - b.last_failure_time[1] > b.recovery_timeout * TicksPerSecond

\* CircuitBreaker._time_until_reset of breaker b at time t
TimeUntilResetOf(b, t) ==
    IF b.last_failure_time = << >> THEN 0
    ELSE Max(0, TruncToSeconds(b.recovery_timeout * TicksPerSecond
                                 - (t - b.last_failure_time[1])))

\* CircuitBreaker._on_success of breaker b
OnSuccessOf(b) == [b EXCEPT !.failure_count = 0, !.status = CLOSED]

\* CircuitBreaker._on_failure of breaker b at time t
OnFailureOf(b, t) ==
    [b EXCEPT !.failure_count = @ + 1,
              !.last_failure_time = <<t>>,
              !.status = IF b.failure_count + 1 >= b.failure_threshold
                         THEN OPEN ELSE @]

Outcome(b, decision, retry_after) ==
    [b |-> b, decision |-> decision, retry_after |-> retry_after]

\* CircuitBreaker.call from its first line to its last, entered at time t
\* with a function that runs for d ticks
WholeCall(b, t, d, outcome) ==
    IF b.status = OPEN /\ ~ShouldAttemptResetOf(b, t)
    THEN Outcome(b, "reject", TimeUntilResetOf(b, t))
    ELSE LET gated == IF b.status = OPEN
                      THEN [b EXCEPT !.status = HALF_OPEN] ELSE b
         IN CASE outcome = "return" -> Outcome(OnSuccessOf(gated), "accept", 0)
              [] outcome = "expected" ->
                   Outcome(OnFailureOf(gated, t + d), "accept", 0)
              [] OTHER -> Outcome(gated, "accept", 0)

\* CircuitBreaker.async_call from its first line to its last, with no other
\* task running while it is suspended at   await func
WholeAsyncCall_NoProbe(b, t, d, outcome) ==
    IF b.status = OPEN /\ ~ShouldAttemptResetOf(b, t)
    THEN Outcome(b, "reject", TimeUntilResetOf(b, t))
    ELSE CASE outcome = "return" -> Outcome(OnSuccessOf(b), "accept", 0)
           [] outcome = "expected" ->
                Outcome(OnFailureOf(b, t + d), "accept", 0)
           [] OTHER -> Outcome(b, "accept", 0)

WholeAsyncCall(b, t, d, outcome) ==
    IF b.status = OPEN
    THEN IF ShouldAttemptResetOf(b, t)
         THEN LET probe == [b EXCEPT !.status = HALF_OPEN]
              IN CASE outcome = "return" ->
                        Outcome(OnSuccessOf(probe), "accept", 0)
                   [] outcome = "expected" ->
                        Outcome(OnFailureOf(probe, t + d), "accept", 0)
                   [] OTHER -> Outcome(probe, "accept", 0)
         ELSE Outcome(b, "reject", TimeUntilResetOf(b, t))
    ELSE CASE outcome = "return" -> Outcome(OnSuccessOf(b), "accept", 0)
           [] outcome = "expected" ->
                Outcome(OnFailureOf(b, t + d), "accept", 0)
           [] OTHER -> Outcome(b, "accept", 0)

\* the same call is made on both breakers: call on one, async_call on the
\* other, with the same outcome of func and at the same times
Pair_Call(outcome, d) ==
    /\ pair.now + d <= MaxTime
    /\ pair' = [sync |-> WholeCall(pair.sync.b, pair.now, d, outcome),
                async |-> WholeAsyncCall(pair.async.b, pair.now, d, outcome),
                now |-> pair.now + d,
                did |-> outcome]

\* time passes between two calls
Pair_Tick ==
    /\ pair.now < MaxTime
    /\ pair' = [pair EXCEPT !.now = @ + 1, !.did = "tick"]

\* two breakers constructed with the same arguments
PairInit ==
    \E threshold \in 1..MaxThreshold, timeout \in 1..MaxRecoveryTimeout :
      pair = [sync |-> Outcome(NewBreaker(threshold, timeout), "none", 0),
              async |-> Outcome(NewBreaker(threshold, timeout), "none", 0),
              now |-> 0,
              did |-> "init"]

InitPair == PairInit /\ BreakerOff /\ RetryOff /\ CacheOff /\ RaceOff
    /\ RegistryOff /\ SearchOff /\ EmbOff /\ HandlerOff /\ StatsOff
    /\ SingletonOff /\ LockOff

PairNext ==
    \/ \E outcome \in Outcomes, d \in Durations :
         Pair_Call(outcome, d) /\ UNCHANGED pairFrame
    \/ Pair_Tick /\ UNCHANGED pairFrame

PairSpec == InitPair /\ [][PairNext]_vars

\* ==================================================== QueryCache, the two locks
\* bounds of this run: max_size, and the memory budget counted in entries of
\* the one size all values have here
MaxLockSize == 2
MaxLockMemory == 3

\* tasks on one event loop, each calling get, set, clear and get_statistics
\* again and again
LockTasks == {"t1", "t2"}

FREE == "free"

\* the task's place in its call, and what follows its CacheStatistics call
At(t, place) == lk.pc[t] = place

\* await self.stats.record_hit / record_miss / record_error / get_stats:
\* the call starts by waiting for the statistics lock; after tells what the
\* caller does when it returns
Record(t, after) ==
    [lk EXCEPT !.pc[t] = "want_stats", !.after[t] = after]

\* leaving   async with self._lock   of the cache, by return or by exception
ReleaseCache(s) == [s EXCEPT !.cache_lock = FREE]

Return(s, t) == [s EXCEPT !.pc[t] = "idle", !.after[t] = "none"]

\* the handlers   except MemoryError / except Exception   of set and get sit
\* outside   async with self._lock: the lock is released when they run
HandlerHoldsLock_Inside == TRUE

HandlerHoldsLock == FALSE

\* an exception leaves the locked block of task t
Unwind(s) == IF HandlerHoldsLock THEN s ELSE ReleaseCache(s)

\* _evict_item of the least recently used entry
EvictOne(s) ==
    [s EXCEPT !.entries = @ - 1, !.total = @ - 1]

\* QueryCache.get up to its first await
Lk_Get_Begin(t, how) ==
    /\ At(t, "idle")
    /\ lk' = CASE how = "open" -> Record(t, "return")
               [] how = "no_key" -> Record(t, "return")
               [] OTHER -> [lk EXCEPT !.pc[t] = "want_cache",
                                      !.after[t] = "get"]

\* QueryCache.set up to   async with self._lock
Lk_Set_Begin(t, how) ==
    /\ At(t, "idle")
    /\ lk' = CASE how = "refused" -> [lk EXCEPT !.pc[t] = "leave"]
               [] how = "raises" -> Record(t, "return")
               [] how = "memory" -> Record(t, "clear")
               [] OTHER -> [lk EXCEPT !.pc[t] = "want_cache",
                                      !.after[t] = "set"]

\* return False of a set that found the breaker open, no key or a value
\* too large
Lk_Leave(t) ==
    /\ At(t, "leave")
    /\ lk' = Return(lk, t)

\* QueryCache.clear up to   async with self._lock
Lk_Clear_Begin(t) ==
    /\ At(t, "idle")
    /\ lk' = [lk EXCEPT !.pc[t] = "want_cache", !.after[t] = "clear"]

\* QueryCache.get_statistics:   stats = await self.stats.get_stats()
Lk_Statistics_Begin(t) ==
    /\ At(t, "idle")
    /\ lk' = Record(t, "statistics")

\* async with self._lock   of the cache: the waiting task gets the lock
Lk_AcquireCache(t) ==
    /\ At(t, "want_cache")
    /\ lk.cache_lock = FREE
    /\ LET inside == CASE lk.after[t] = "get" -> "get_locked"
                        [] lk.after[t] = "set" -> "memory_loop"
                        [] lk.after[t] = "clear" -> "clear_locked"
                        [] OTHER -> "statistics_locked"
       IN lk' = [lk EXCEPT !.cache_lock = t,
                           !.evicted_count = 0,
                           !.pc[t] = inside]

\* get inside the lock: an expired entry is evicted and a miss recorded, a
\* live one is a hit, an absent one a miss; or the body raises
Lk_Get_Body(t, found) ==
    /\ At(t, "get_locked")
    /\ found \in {"expired", "hit"} => lk.entries >= 1
    /\ lk' = CASE found = "expired" ->
                    [EvictOne(lk) EXCEPT !.pc[t] = "want_stats",
                                         !.after[t] = "unlock"]
               [] found \in {"hit", "miss"} ->
                    [lk EXCEPT !.pc[t] = "want_stats", !.after[t] = "unlock"]
               [] OTHER ->
                    [Unwind(lk) EXCEPT !.pc[t] = "want_stats",
                                       !.after[t] = "return"]

\* _evict_if_needed, one round of
\*   while self._total_memory_bytes + new_size > memory_limit_bytes
Lk_MemoryLoop(t) ==
    /\ At(t, "memory_loop")
    /\ lk' = IF lk.total + 1 > lk.memory_limit
             THEN IF lk.entries = 0
                  THEN Return(ReleaseCache(lk), t)
                  ELSE IF lk.evicted_count + 1 > lk.max_size
                  THEN Return(ReleaseCache(
                         [EvictOne(lk) EXCEPT !.evicted_count = @ + 1]), t)
                  ELSE [EvictOne(lk) EXCEPT !.evicted_count = @ + 1]
             ELSE [lk EXCEPT !.pc[t] = "size_loop"]

\* _evict_if_needed, one round of
\*   while len(self._cache) >= self.max_size
Lk_SizeLoop(t) ==
    /\ At(t, "size_loop")
    /\ lk' = IF lk.entries >= lk.max_size
             THEN EvictOne(lk)
             ELSE [lk EXCEPT !.pc[t] = "store"]

\* set after _evict_if_needed: the entry is written (a new key, or over the
\* key's old entry, whose size stays in the total), or a MemoryError or
\* another exception is raised
Lk_Store(t, how) ==
    /\ At(t, "store")
    /\ how = "overwrite" => lk.entries >= 1
    /\ lk' = CASE how = "new" ->
                    Return(ReleaseCache(
                      [lk EXCEPT !.entries = @ + 1, !.total = @ + 1]), t)
               [] how = "overwrite" ->
                    Return(ReleaseCache([lk EXCEPT !.total = @ + 1]), t)
               [] how = "memory" ->
                    [Unwind(lk) EXCEPT !.pc[t] = "want_stats",
                                       !.after[t] = "clear"]
               [] OTHER ->
                    [Unwind(lk) EXCEPT !.pc[t] = "want_stats",
                                       !.after[t] = "return"]

\* clear inside the lock
Lk_Clear_Body(t) ==
    /\ At(t, "clear_locked")
    /\ lk' = Return(ReleaseCache([lk EXCEPT !.entries = 0, !.total = 0]), t)

\* get_statistics inside the lock of the cache
Lk_Statistics_Body(t) ==
    /\ At(t, "statistics_locked")
    /\ lk' = Return(ReleaseCache(lk), t)

\* async with self._lock   of CacheStatistics
Lk_AcquireStats(t) ==
    /\ At(t, "want_stats")
    /\ lk.stats_lock = FREE
    /\ lk' = [lk EXCEPT !.stats_lock = t, !.pc[t] = "in_stats"]

\* the CacheStatistics call returns, and its caller goes on: get returns
\* out of the lock of the cache, get and set return from their handlers,
\* set's MemoryError handler calls clear(), get_statistics goes for the lock
\* of the cache
Lk_ReleaseStats(t) ==
    /\ At(t, "in_stats")
    /\ LET s == [lk EXCEPT !.stats_lock = FREE]
       IN lk' = CASE lk.after[t] = "unlock" -> Return(ReleaseCache(s), t)
                  [] lk.after[t] = "return" -> Return(s, t)
                  [] lk.after[t] = "clear" ->
                       [s EXCEPT !.pc[t] = "want_cache", !.after[t] = "clear"]
                  [] OTHER ->
                       [s EXCEPT !.pc[t] = "want_cache",
                                 !.after[t] = "statistics"]

\* QueryCache.__init__ and some sets before the tasks start
LockInit ==
    \E max_size \in 1..MaxLockSize, entries \in 0..MaxLockSize :
      /\ entries <= max_size
      /\ lk = [pc |-> [t \in LockTasks |-> "idle"],
               after |-> [t \in LockTasks |-> "none"],
               cache_lock |-> FREE,
               stats_lock |-> FREE,
               max_size |-> max_size,
               memory_limit |-> MaxLockMemory,
               entries |-> entries,
               total |-> entries,
               evicted_count |-> 0]

InitLock == LockInit /\ BreakerOff /\ RetryOff /\ CacheOff /\ RaceOff
    /\ RegistryOff /\ SearchOff /\ EmbOff /\ HandlerOff /\ StatsOff
    /\ SingletonOff /\ PairOff

\* what task t does once it is in a call
Lk_Proceed(t) ==
    \/ Lk_Leave(t)
    \/ \E found \in {"expired", "hit", "miss", "raises"} : Lk_Get_Body(t, found)
    \/ Lk_MemoryLoop(t)
    \/ Lk_SizeLoop(t)
    \/ \E how \in {"new", "overwrite", "memory", "raises"} : Lk_Store(t, how)
    \/ Lk_Clear_Body(t)
    \/ Lk_Statistics_Body(t)
    \/ Lk_ReleaseStats(t)

LockNext ==
    \/ \E t \in LockTasks, how \in {"open", "no_key", "lookup"} :
         Lk_Get_Begin(t, how) /\ UNCHANGED lockFrame
    \/ \E t \in LockTasks, how \in {"refused", "raises", "memory", "lookup"} :
         Lk_Set_Begin(t, how) /\ UNCHANGED lockFrame
    \/ \E t \in LockTasks : Lk_Clear_Begin(t) /\ UNCHANGED lockFrame
    \/ \E t \in LockTasks : Lk_Statistics_Begin(t) /\ UNCHANGED lockFrame
    \/ \E t \in LockTasks : Lk_AcquireCache(t) /\ UNCHANGED lockFrame
    \/ \E t \in LockTasks : Lk_AcquireStats(t) /\ UNCHANGED lockFrame
    \/ \E t \in LockTasks : Lk_Proceed(t) /\ UNCHANGED lockFrame

\* the event loop runs every task that is ready, and an asyncio.Lock wakes
\* its waiters in the order they came: a task that can go on does, and a
\* task waiting for a lock that is free again and again gets it
LockFairness ==
    \A t \in LockTasks :
      /\ WF_vars(Lk_Proceed(t) /\ UNCHANGED lockFrame)
      /\ SF_vars(Lk_AcquireCache(t) /\ UNCHANGED lockFrame)
      /\ SF_vars(Lk_AcquireStats(t) /\ UNCHANGED lockFrame)

LockSpec == InitLock /\ [][LockNext]_vars /\ LockFairness

\* ============================================== properties: CircuitBreaker
InFlight(c) == pc[c] # "idle"

\* the step is the head of a call or async_call: let through or refused
IsAttempt == ev'.kind \in {"enter", "reject"}

\* C1: every call whose function raises an expected exception adds 1 to
\* failure_count; the status turns from CLOSED to OPEN exactly in the failing
\* call that brings failure_count to failure_threshold; with fewer failures
\* since the last success the status is CLOSED; a successful call puts the
\* count back to 0.
C1_FailureCounting ==
    [][ /\ ev'.kind = "failure" =>
             /\ failure_count' = failure_count + 1
             /\ (status = CLOSED =>
                   (status' = OPEN <=> failure_count' = failure_threshold))
        /\ ev'.kind = "success" => failure_count' = 0
        /\ failure_count' < failure_threshold => status' = CLOSED
        /\ (status = CLOSED /\ status' = OPEN) =>
             /\ ev'.kind = "failure"
             /\ failure_count' = failure_threshold
      ]_vars

\* C1 witness: the second of two failures in a row just opened a breaker of
\* threshold 2
C1_Witness ==
    /\ failure_threshold = 2
    /\ ev.kind = "failure"
    /\ failure_count = 2
    /\ status = OPEN

\* C2: while the status is OPEN and at most recovery_timeout has elapsed
\* since last_failure_time, every call and async_call is refused: func is not
\* entered, failure_count, last_failure_time and status stay as they were,
\* and retry_after is the remaining wait cut down to whole seconds, >= 0.
C2_OpenRejects ==
    [][ (/\ IsAttempt
         /\ status = OPEN
         /\ last_failure_time # << >>
         /\ now - last_failure_time[1] <= recovery_timeout * TicksPerSecond)
        =>
        (/\ ev'.kind = "reject"
         /\ pc' = pc
         /\ UNCHANGED <<failure_count, last_failure_time, status>>
         /\ ev'.retry_after >= 0
         /\ LET remaining == recovery_timeout * TicksPerSecond
                               - (now - last_failure_time[1])
            IN /\ ev'.retry_after * TicksPerSecond <= remaining
               /\ remaining < (ev'.retry_after + 1) * TicksPerSecond)
      ]_vars

\* C2 witness: a call was just refused part-way through a second of the
\* timeout, so that the remaining wait was cut down
C2_Witness ==
    /\ ev.kind = "reject"
    /\ status = OPEN
    /\ last_failure_time # << >>
    /\ (now - last_failure_time[1]) % TicksPerSecond # 0
    /\ ev.retry_after = 0

\* C3 (as claimed): a call attempted while OPEN after more than
\* recovery_timeout sets HALF_OPEN and enters func; if that probe returns the
\* breaker is CLOSED with failure_count 0; if it raises an expected exception
\* the breaker is OPEN again with last_failure_time stamped anew.
C3_ProbeResolves ==
    [][ /\ (IsAttempt /\ status = OPEN /\ ShouldAttemptReset) =>
             /\ ev'.kind = "enter"
             /\ status' = HALF_OPEN
             /\ pc'[ev'.caller] # "idle"
        /\ \A c \in Callers :
             (entered[c] = "probe" /\ ev'.caller = c) =>
               /\ ev'.kind = "success" =>
                    (status' = CLOSED /\ failure_count' = 0)
               /\ ev'.kind = "failure" =>
                    (status' = OPEN /\ last_failure_time' = <<now>>)
      ]_vars

\* C4 (as claimed): while the status is HALF_OPEN at most one call that was
\* let through in HALF_OPEN is inside its wrapped function.
C4_SingleProbe ==
    status = HALF_OPEN =>
      Cardinality({c \in Callers :
                     InFlight(c) /\ entered[c] \in {"probe", HALF_OPEN}}) <= 1

\* C5 (as claimed): the status changes only CLOSED->OPEN, OPEN->HALF_OPEN,
\* HALF_OPEN->CLOSED and HALF_OPEN->OPEN; never OPEN->CLOSED.
C5_StatusEdges ==
    [][ status' # status =>
          <<status, status'>> \in {<<CLOSED, OPEN>>, <<OPEN, HALF_OPEN>>,
                                   <<HALF_OPEN, CLOSED>>, <<HALF_OPEN, OPEN>>}
      ]_vars

\* C24: an async_call whose wrapped coroutine is cancelled leaves
\* failure_count and last_failure_time as they are; failure_count grows only
\* in a step where the wrapped call raised an expected exception.
C24_CancelNotCounted ==
    [][ /\ ev'.kind = "cancel" =>
             /\ failure_count' = failure_count
             /\ last_failure_time' = last_failure_time
        /\ failure_count' > failure_count => ev'.kind = "failure"
      ]_vars

\* C24 witness: one failure is counted, then a call in flight was
\* cancelled, and the count is still 1 with the breaker closed
C24_Witness ==
    /\ ev.kind = "cancel"
    /\ failure_threshold = 2
    /\ failure_count = 1
    /\ status = CLOSED

\* C33: in every reachable state of a breaker with failure_threshold >= 1,
\* whatever the interleaving of the calls: the status is CLOSED exactly when
\* failure_count < failure_threshold, and in OPEN and HALF_OPEN
\* last_failure_time is set.
C33_StatusMatchesCount ==
    /\ status = CLOSED <=> failure_count < failure_threshold
    /\ status \in {OPEN, HALF_OPEN} => last_failure_time # << >>

\* C33 witness: the breaker was closed again by a call that returned, while
\* another call that went in as the probe of the HALF_OPEN breaker is still
\* inside its function
C33_Witness ==
    /\ status = CLOSED
    /\ failure_count = 0
    /\ ev.kind = "success"
    /\ last_failure_time # << >>
    /\ \E c \in Callers : InFlight(c) /\ entered[c] = "probe"

\* C34 (as claimed): whenever a call let through while the breaker is
\* HALF_OPEN completes, by returning or by raising any exception, one that
\* does not match expected_exception included, the breaker is CLOSED or OPEN
\* afterwards, never left in HALF_OPEN.
C34_HalfOpenResolved ==
    [][ \A c \in Callers :
          (/\ entered[c] \in {"probe", HALF_OPEN}
           /\ ev'.caller = c
           /\ ev'.kind \in {"success", "failure", "other"})
          => status' \in {CLOSED, OPEN}
      ]_vars

\* ========================================== properties: retry_with_backoff
\* the first k invocations all raised an exception of the TransientError family
FirstRaisedRetriable(k) ==
    \A i \in 1..k : outcomes[i].kind \in {"transient", "rate_limit"}

Finished == r_pc \in {"returned", "raised", "type_error"}

\* C6: func raises a retriable exception on its first k invocations,
\* k < max_retries, and then returns: the wrapper keeps going through the k
\* failures (one sleep after each), returns the value of invocation k+1, and
\* func has been invoked exactly k+1 times.
C6_SucceedsAfterFailures ==
    LET n == Len(outcomes)
    IN /\ (FirstRaisedRetriable(n) /\ n < cfg.max_retries) =>
            (r_pc \in {"call", "sleep"} /\ sleeps = n)
       /\ (n >= 1 /\ FirstRaisedRetriable(n - 1) /\ outcomes[n].kind = "ok") =>
            (r_pc = "returned" /\ delivered = n /\ sleeps = n - 1)

\* C6 witness: two failures, then the third invocation returned
C6_Witness ==
    /\ r_pc = "returned"
    /\ Len(outcomes) = 3
    /\ outcomes[1].kind = "transient"
    /\ outcomes[2].kind = "rate_limit"
    /\ delivered = 3
    /\ sleeps = 2

\* C7 (as claimed): func raising a retriable exception on every invocation is
\* invoked exactly max_retries + 1 times, and then the caller gets the
\* exception of the last invocation.  Stated for max_retries >= 1, where the
\* loop body runs at all.
C7_InitialPlusRetries ==
    (cfg.max_retries >= 1 /\ Finished /\ FirstRaisedRetriable(Len(outcomes))) =>
      /\ Len(outcomes) = cfg.max_retries + 1
      /\ r_pc = "raised"
      /\ delivered = Len(outcomes)

C9_NonRetriablePropagates ==
    LET n == Len(outcomes)
    IN /\ (n >= 1 /\ outcomes[1].kind = "other") =>
            (r_pc = "raised" /\ n = 1 /\ delivered = 1 /\ sleeps = 0)
       /\ (n >= 1 /\ outcomes[n].kind = "other") =>
            (r_pc = "raised" /\ delivered = n /\ sleeps = n - 1)

\* C9 witness: the first invocation raised outside retry_on although three
\* rounds were allowed
C9_Witness ==
    /\ cfg.max_retries = 3
    /\ outcomes = <<[kind |-> "other", retry_after |-> 0]>>
    /\ r_pc = "raised"

\* C10: after a RateLimitError with retry_after = r in a round that is not
\* the last, the wrapper sleeps max(d, r), d being the computed (jittered if
\* enabled) backoff delay; so never less than r, also when r > max_delay.
C10_RateLimitDelay ==
    LET n == Len(outcomes)
    IN (r_pc = "sleep" /\ outcomes[n].kind = "rate_limit") =>
         LET r == outcomes[n].retry_after
             d == Jittered(BackoffDelay(attempt), jit)
         IN /\ last_sleep = (IF d >= r THEN d ELSE r)
            /\ last_sleep >= r

\* C10 witness: the hint exceeds max_delay and is what the wrapper sleeps
C10_Witness ==
    /\ r_pc = "sleep"
    /\ outcomes[Len(outcomes)].kind = "rate_limit"
    /\ outcomes[Len(outcomes)].retry_after > cfg.max_delay
    /\ last_sleep = outcomes[Len(outcomes)].retry_after
    /\ cfg.jitter

\* C11: after the failed attempt with 0-based index i, a TransientError
\* without rate-limit hint, the wrapper sleeps exactly
\* min(initial_delay * exponential_base^i, max_delay) when jitter is off; with
\* jitter on it sleeps that value times a factor in [0.5, 1.0], so never
\* longer than the value itself and never longer than max_delay.
C11_BackoffDelay ==
    LET n == Len(outcomes)
        d == Min(cfg.initial_delay * Pow(cfg.exponential_base, attempt),
                 cfg.max_delay)
    IN (r_pc = "sleep" /\ outcomes[n].kind = "transient") =>
         /\ ~cfg.jitter => last_sleep = d
         /\ cfg.jitter =>
              /\ \E f \in 5..10 : last_sleep = (d * f) \div 10
              /\ last_sleep <= d
              /\ last_sleep <= cfg.max_delay

\* C39 (as claimed): for every max_retries >= 0, 0 included, the wrapped
\* function is invoked at least once, and what the caller receives is a value
\* the function returned or an exception the function raised, never an error
\* of the wrapper's own.
C39_DeliversWhatFuncDid ==
    Finished =>
      /\ Len(outcomes) >= 1
      /\ r_pc \in {"returned", "raised"}
      /\ delivered \in 1..Len(outcomes)

\* ================================================== properties: QueryCache
\* the step is a call of name that got past the breaker check with a valid
\* query and ran into no error
Ran(name) ==
    /\ op'.op = name
    /\ ~circuit_open
    /\ op'.key # "none"
    /\ op'.fault = "none"

\* the step is a set that stored its value
Stored == op'.op = "set" /\ op'.result = "true"

\* C12: with the breaker closed and a valid query q, get(q) answers absent
\* when no set has stored q (an entry only appears by a successful set of its
\* key); a successful set(q, v) stores v stamped with the current time, only
\* a successful set of q changes what is stored under q, and get(q) returns
\* the stored v as long as the entry is still there (not evicted, not
\* cleared) and no more than ttl_seconds have passed since the set.
C12_GetAfterSet ==
    [][ /\ Ran("get") =>
             LET k == op'.key
             IN /\ k \notin DOMAIN cache => op'.result = ABSENT
                /\ (k \in DOMAIN cache
                    /\ clock - cache[k].stored_at <= qc.ttl_seconds) =>
                      op'.result = cache[k].value
        /\ Stored =>
             /\ op'.key \in DOMAIN cache'
             /\ cache'[op'.key].value = op'.value
             /\ cache'[op'.key].stored_at = clock
        /\ \A k \in DOMAIN cache' :
             (k \notin DOMAIN cache \/ cache'[k] # cache[k]) =>
                (Stored /\ op'.key = k)
      ]_vars

\* C12 witness: a get returns v2 one second after the set that stored it,
\* in a cache that has accounted more bytes than this entry
C12_Witness ==
    /\ op.op = "get"
    /\ op.key = "a"
    /\ op.result = "v2"
    /\ clock = cache["a"].stored_at + 1
    /\ total_memory_bytes > SizeOf["v2"]

\* C13: between calls (every call runs as one step) the number of stored
\* entries is at most max_size and the sum of size_bytes over the stored
\* entries is at most the memory budget max_memory_mb * 1024 * 1024.
C13_Capacity ==
    qc.on =>
      /\ Cardinality(DOMAIN cache) <= qc.max_size
      /\ SumSizes(cache) <= MemoryLimitBytes

\* C13 witness: a set has just evicted to store its value in a cache that is
\* full again, max_size being 3
C13_Witness ==
    /\ op.op = "set"
    /\ op.result = "true"
    /\ Len(op.evicted) = 1
    /\ Cardinality(DOMAIN cache) = 3
    /\ qc.max_size = 3

\* C14: between calls the running total _total_memory_bytes equals the sum
\* of size_bytes over the entries in the entry table, after any sequence of
\* set (overwrites included), get (expiry included), eviction and clear.
C14_MemoryAccount ==
    qc.on => total_memory_bytes = SumSizes(cache)

\* C15: a successful set(q, v) directly followed by a second set(q, v)
\* leaves the accounted memory as it was after the first, and q cached.
C15_SetIdempotent ==
    [][ ( /\ op.op = "set" /\ op.result = "true"
          /\ op'.op = "set" /\ op'.result = "true"
          /\ op'.key = op.key
          /\ op'.value = op.value ) =>
            /\ total_memory_bytes' = total_memory_bytes
            /\ op.key \in DOMAIN cache'
      ]_vars

\* C16: between calls the key set of _access_times equals the key set of
\* _cache, after any sequence of set, get (hit, miss, expiry), eviction,
\* clear and clear_pattern.
C16_AccessIndex ==
    DOMAIN access_times = DOMAIN cache

\* C16 witness: a get has just removed an expired entry and another entry
\* is still cached
C16_Witness ==
    /\ op.op = "get"
    /\ op.evicted = <<"a">>
    /\ DOMAIN cache = {"b"}
    /\ DOMAIN access_times = {"b"}

\* C17: with ttl_seconds = T, a get of a cached q issued less than T after
\* the set that stored it returns the value; issued more than T after it,
\* the get returns absent, records one miss and removes the entry from the
\* entry table, from the access index and (its size) from the memory account.
C17_Ttl ==
    [][ (Ran("get") /\ op'.key \in DOMAIN cache) =>
          LET k == op'.key
              elapsed == clock - cache[k].stored_at
          IN /\ elapsed < qc.ttl_seconds => op'.result = cache[k].value
             /\ elapsed > qc.ttl_seconds =>
                  /\ op'.result = ABSENT
                  /\ op'.recorded = <<"miss">>
                  /\ k \notin DOMAIN cache'
                  /\ k \notin DOMAIN access_times'
                  /\ total_memory_bytes' =
                       total_memory_bytes - cache[k].size_bytes
      ]_vars

\* C17 witness: with ttl_seconds = 2, a get three seconds after the set has
\* answered absent and left the tables empty
C17_Witness ==
    /\ qc.ttl_seconds = 2
    /\ clock = 3
    /\ op.op = "get"
    /\ op.result = ABSENT
    /\ op.recorded = <<"miss">>
    /\ op.evicted = <<"a">>
    /\ cache = NoEntries
    /\ total_memory_bytes = 0

\* the step is a get that found a live entry
Hit == op'.op = "get" /\ op'.recorded = <<"hit">>

\* C18: every get hit and every successful set stamps the key's last access
\* with the current time; each entry a set evicts has, when it is evicted, a
\* last-access stamp that is minimal among the entries then stored.  So with
\* max_size = 3, a, b, c cached and b the one least recently accessed (as
\* after set a, b, c; get a), a set of d that fits the memory budget evicts
\* b alone and leaves exactly {a, c, d}.
C18_Lru ==
    [][ /\ (Hit \/ Stored) => access_times'[op'.key] = clock
        /\ op'.op = "set" =>
             \A i \in 1..Len(op'.evicted) :
                LET gone == {op'.evicted[j] : j \in 1..(i - 1)}
                    victim == op'.evicted[i]
                IN /\ victim \in DOMAIN access_times \ gone
                   /\ \A k \in DOMAIN access_times \ gone :
                        access_times[victim] <= access_times[k]
        /\ ( /\ Stored /\ op'.key = "d"
             /\ qc.max_size = 3
             /\ DOMAIN cache = {"a", "b", "c"}
             /\ access_times["b"] < access_times["a"]
             /\ access_times["b"] < access_times["c"]
             /\ total_memory_bytes + SizeOf[op'.value] <= MemoryLimitBytes ) =>
               /\ op'.evicted = <<"b">>
               /\ DOMAIN cache' = {"a", "c", "d"}
      ]_vars

\* C18 witness: a stored at second 0, c at second 2, a read at second 3,
\* then d stored: b, last accessed before c, was evicted; a, c, d are cached
C18_Witness ==
    /\ qc.max_size = 3
    /\ op.op = "set" /\ op.key = "d" /\ op.result = "true"
    /\ op.evicted = <<"b">>
    /\ DOMAIN cache = {"a", "c", "d"}
    /\ cache["a"].stored_at = 0
    /\ cache["c"].stored_at = 2
    /\ access_times["a"] = 3
    /\ access_times["c"] = 2
    /\ total_memory_bytes = 3

\* the call ran into an internal error
Faulted == op.op \in {"get", "set"} /\ op.fault # "none"

\* what a failed call hands back: absent from get, False from set
FailOpen == op.result = (IF op.op = "get" THEN ABSENT ELSE "false")

\* C19 as stated: whatever the internal error and whatever the error_mode,
\* get and set raise nothing; on an internal error get returns absent and
\* set returns False.
C19_NeverRaises ==
    /\ op.op \in {"get", "set"} => op.result # "raise"
    /\ Faulted => FailOpen

\* C19: with error_mode SILENT or WARN, get and set raise nothing, and on an
\* internal error get returns absent and set returns False; with error_mode
\* RAISE an internal error leaves the call as an exception, except a
\* MemoryError in set, after which set clears the cache and returns False.
C19_FailOpen ==
    /\ (qc.error_mode \in {SILENT, WARN} /\ op.op \in {"get", "set"}) =>
          /\ op.result # "raise"
          /\ Faulted => FailOpen
    /\ (qc.error_mode = RAISE /\ Faulted) =>
          IF op.fault = "memory"
          THEN FailOpen /\ cache = NoEntries
          ELSE op.result = "raise"

\* C19 witness: in WARN mode a get failed in its body, recorded the error
\* and answered absent
C19_Witness ==
    /\ qc.error_mode = WARN
    /\ op.op = "get"
    /\ op.fault = "body"
    /\ op.result = ABSENT
    /\ op.recorded = <<"error">>
    /\ consecutive_errors = 2

\* C20: the breaker of the cache opens in the step that brings the
\* consecutive-error counter to 10 (or beyond), never below 10.  While it is
\* open, get returns absent and records exactly one miss, set returns False
\* and records nothing, and neither changes the entry table, the access
\* index or the memory account.
C20_CacheBreaker ==
    [][ /\ consecutive_errors' >= 10 => circuit_open'
        /\ (~circuit_open /\ circuit_open') =>
             (consecutive_errors < 10 /\ consecutive_errors' >= 10)
        /\ (circuit_open /\ op'.op = "get") =>
             /\ op'.result = ABSENT
             /\ op'.recorded = <<"miss">>
             /\ UNCHANGED tableVars
        /\ (circuit_open /\ op'.op = "set") =>
             /\ op'.result = "false"
             /\ op'.recorded = << >>
             /\ UNCHANGED tableVars
      ]_vars

\* C20 witness: after ten errors in a row the breaker is open and a get of
\* a cached key has answered absent with one miss
C20_Witness ==
    /\ circuit_open
    /\ consecutive_errors = 10
    /\ op.op = "get"
    /\ op.key = "a"
    /\ op.result = ABSENT
    /\ op.recorded = <<"miss">>
    /\ "a" \in DOMAIN cache
    /\ clock - cache["a"].stored_at <= qc.ttl_seconds

\* the step is a cache operation that succeeded: a get hit, a set that
\* stored, a clear or a clear_pattern
Succeeded == Hit \/ Stored \/ op'.op \in {"clear", "clear_pattern"}

\* C21: every cache operation that succeeds puts the consecutive-error
\* counter to 0 and leaves the breaker closed, in particular the first one
\* after the breaker has opened; the breaker closes in no other way, and
\* once it is closed get and set go to the tables again.
C21_BreakerCloses ==
    [][ /\ Succeeded => (consecutive_errors' = 0 /\ ~circuit_open')
        /\ (circuit_open /\ ~circuit_open') => Succeeded
        /\ (~circuit_open /\ Ran("get") /\ op'.key \in DOMAIN cache
            /\ ~Expired(op'.key)) => Hit
      ]_vars

\* C21 witness: a clear found the breaker open and has closed it
C21_Witness ==
    /\ op.op = "clear"
    /\ op.was_open
    /\ ~circuit_open
    /\ consecutive_errors = 0

C32_AlwaysRoom ==
    [][ (Ran("set") /\ 10 * SizeOf[op'.value] <= MemoryLimitBytes)
          => op'.result = "true"
      ]_vars

\* C36 (as claimed): a set for a key that is already cached, issued while
\* the memory account plus the new value stays within the budget, removes no
\* other key: the same keys are stored before and after the call, also when
\* the cache is at max_size.
C36_OverwriteKeepsOthers ==
    [][ (/\ Ran("set")
         /\ op'.key \in DOMAIN cache
         /\ 10 * SizeOf[op'.value] <= MemoryLimitBytes
         /\ total_memory_bytes + SizeOf[op'.value] <= MemoryLimitBytes)
        => /\ DOMAIN cache' = DOMAIN cache
           /\ Cardinality(DOMAIN cache') = Cardinality(DOMAIN cache)
      ]_vars

\* C35: once the breaker of the cache is open, a get or a set (and so a
\* warm_cache, which is a row of set calls) leaves it open and leaves the
\* entry table, the access index and the memory account as they are; every
\* such get answers absent and every such set False.  The breaker closes
\* only in a clear() or a clear_pattern() step, and each of them closes it.
C35_OpenStaysOpen ==
    [][ /\ (circuit_open /\ op'.op \in {"get", "set"}) =>
             /\ circuit_open'
             /\ UNCHANGED tableVars
             /\ op'.result = (IF op'.op = "get" THEN ABSENT ELSE "false")
             /\ op'.evicted = << >>
        /\ (circuit_open /\ ~circuit_open') =>
             op'.op \in {"clear", "clear_pattern"}
        /\ (circuit_open /\ op'.op \in {"clear", "clear_pattern"}) =>
             ~circuit_open'
      ]_vars

\* C35 witness: with the breaker open, a get of a key that is stored and
\* has not expired has just answered absent
C35_Witness ==
    /\ circuit_open
    /\ op.op = "get"
    /\ op.was_open
    /\ op.result = ABSENT
    /\ op.key \in DOMAIN cache
    /\ ~Expired(op.key)

\* C38: the TTL is absolute, not sliding: a get hit writes the entry's
\* last-access stamp and nothing else, stored_at of a stored key is written
\* only by a set of that key (which stamps it with the current time), and a
\* get more than ttl_seconds after stored_at answers absent even when the
\* entry was read less than ttl_seconds ago.
C38_AbsoluteTtl ==
    [][ /\ Hit =>
             /\ cache' = cache
             /\ access_times' = With(access_times, op'.key, clock)
        /\ \A k \in DOMAIN cache \cap DOMAIN cache' :
             cache'[k].stored_at # cache[k].stored_at =>
               /\ Stored
               /\ op'.key = k
               /\ cache'[k].stored_at = clock
        /\ \A k \in DOMAIN cache :
             (/\ Ran("get")
              /\ op'.key = k
              /\ clock - cache[k].stored_at > qc.ttl_seconds
              /\ clock - access_times[k] <= qc.ttl_seconds)
             => (op'.result = ABSENT /\ k \notin DOMAIN cache')
      ]_vars

\* C38 witness: an entry that was read after it was stored is now older
\* than ttl_seconds counted from its set, and younger counted from its last
\* read
C38_Witness ==
    \E k \in DOMAIN cache :
      /\ ~circuit_open
      /\ access_times[k] > cache[k].stored_at
      /\ clock - cache[k].stored_at > qc.ttl_seconds
      /\ clock - access_times[k] <= qc.ttl_seconds

\* ======================================= properties: QueryCache step by step
\* the entry a writer that returned True has written
Written(w) ==
    [value |-> TaskValue[w], stored_at |-> task_loc[w].wrote_at,
     size_bytes |-> SizeOf[TaskValue[w]]]

\* the writers that returned True, in the order they entered the lock
Winners == SelectSeq(acquired, LAMBDA t : t \in Writers
                                          /\ task_loc[t].result = "true")

\* C23: of concurrent set(q, v1) and set(q, v2), once both have returned,
\* the entry stored under q (unless a get has expired it since) is whole the
\* one written by the call that entered the lock last: value, stored_at and
\* size_bytes; it is in the access index; and a concurrent get(q) returns
\* absent, v1 or v2, and a value only from a whole entry of one of the two
\* calls that it found in the access index.
C23_SetsSerialized ==
    /\ ( (\A w \in Writers : task_pc[w] = "done") /\ "a" \in DOMAIN cache ) =>
          /\ Winners # << >>
          /\ cache["a"] = Written(Winners[Len(Winners)])
          /\ "a" \in DOMAIN access_times
    /\ \A r \in Readers :
         task_pc[r] = "done" =>
           /\ task_loc[r].result \in {ABSENT, "v1", "v2"}
           /\ task_loc[r].result # ABSENT =>
                /\ \E w \in Writers :
                     /\ task_loc[r].read = Written(w)
                     /\ task_loc[r].result = TaskValue[w]
                /\ task_loc[r].indexed

\* C23 witness: both writers waited for the lock at the same time, w2 entered
\* it first and w1 last; the get, which came between them, returned v2 and
\* the entry left is w1's
C23_Witness ==
    /\ acquired = <<"w2", "r", "w1">>
    /\ \A t \in Tasks : task_pc[t] = "done"
    /\ task_loc["r"].result = "v2"
    /\ cache["a"].value = "v1"
    /\ task_loc["w1"].wrote_at > task_loc["w2"].wrote_at

\* ====================================== properties: CircuitBreakerRegistry
\* C25: a registered name keeps the breaker object of its first register
\* and that breaker's configuration; register of a registered name, whatever
\* the parameters, returns that object and changes nothing (configuration,
\* failure_count and status stay); register of a new name constructs one
\* breaker with the parameters given; get returns the registered object, or
\* nothing (0) for an unregistered name, and changes nothing.
C25_RegisterIdempotent ==
    [][ /\ \A n \in DOMAIN breakers :
             /\ n \in DOMAIN breakers'
             /\ breakers'[n].id = breakers[n].id
             /\ breakers'[n].failure_threshold = breakers[n].failure_threshold
        /\ reg_ev'.op = "register" =>
             IF reg_ev'.name \in DOMAIN breakers
             THEN /\ reg_ev'.returned = breakers[reg_ev'.name].id
                  /\ UNCHANGED <<breakers, created>>
             ELSE /\ reg_ev'.returned = created + 1
                  /\ created' = created + 1
                  /\ breakers'[reg_ev'.name] =
                       [id |-> created + 1,
                        failure_threshold |-> reg_ev'.threshold,
                        failure_count |-> 0, status |-> CLOSED]
        /\ reg_ev'.op = "get" =>
             /\ UNCHANGED <<breakers, created>>
             /\ reg_ev'.returned =
                  (IF reg_ev'.name \in DOMAIN breakers
                   THEN breakers[reg_ev'.name].id ELSE 0)
      ]_vars

\* C25 witness: service1, registered with threshold 1 and open after one
\* failure, was registered again with threshold 2: the same open breaker
\* came back
C25_Witness ==
    /\ reg_ev.op = "register"
    /\ reg_ev.name = "service1"
    /\ reg_ev.threshold = 2
    /\ "service1" \in DOMAIN breakers
    /\ reg_ev.returned = breakers["service1"].id
    /\ breakers["service1"].failure_threshold = 1
    /\ breakers["service1"].failure_count = 1
    /\ breakers["service1"].status = OPEN
    /\ created = 1

\* ================================================ properties: cached_search
\* the latest two finished calls were the same function with the same query
\* text, and the first of them missed the cache and got a result from func
SameCallTwice ==
    /\ w_prev.fn = w_done.fn
    /\ w_prev.query = w_done.query
    /\ w_prev.looked_up /\ w_done.looked_up
    /\ w_prev.invoked
    /\ w_prev.returned # "raised"

\* the cache is looked up, func runs exactly on a miss, a hit returns what the
\* cache holds, and the result is written exactly if func took more than 0.5 s
WrittenOnlyIfSlow ==
    /\ w_done.looked_up => (w_done.invoked <=> ~w_done.hit)
    /\ w_done.set_called <=>
         /\ w_done.looked_up /\ w_done.invoked
         /\ w_done.returned # "raised"
         /\ w_done.execution_time > SlowThreshold
    /\ w_done.stored => w_done.set_called

\* after a first call that took at most 0.5 s the second call runs func again
FastTwice ==
    SameCallTwice /\ w_prev.execution_time <= SlowThreshold
        => w_done.invoked

\* the second call looked the cache up within the TTL of the first one's write
WithinTtl == w_done.looked_at - w_prev.stored_at <= qc.ttl_seconds

OrderKeys == {access_order[i] : i \in DOMAIN access_order}

\* the latest call was a get that hit, or a set that stored or refreshed
EmbTouched ==
    \/ emb_ev.op = "get" /\ emb_ev.result # ABSENT
    \/ emb_ev.op = "set" /\ emb_ev.result = "true"

\* C27: the embedding cache is a strict LRU of fixed capacity: it never holds
\* more than max_size entries, its access-order list holds exactly the cached
\* keys, each once; a get hit or a set leaves the key at the most-recent end;
\* and a set of a new key into a full cache evicts exactly the key that was
\* read or written least recently
C27_StrictLru ==
    /\ Cardinality(DOMAIN emb_cache) <= emb_max_size
    /\ OrderKeys = DOMAIN emb_cache
    /\ Len(access_order) = Cardinality(DOMAIN emb_cache)
    /\ EmbTouched =>
         /\ emb_ev.key \in DOMAIN emb_cache
         /\ access_order[Len(access_order)] = emb_ev.key
    /\ emb_ev.op = "set" /\ emb_ev.result = "true" /\ ~emb_ev.was_cached =>
         IF emb_ev.was_full
         THEN /\ Len(emb_ev.evicted) = 1
              /\ emb_ev.lru_before = {emb_ev.evicted[1]}
         ELSE emb_ev.evicted = << >>

\* a set of a new key into a full cache of two evicted the key used least
\* recently, and the other key stays in front of the new one
C27_Witness ==
    /\ emb_max_size = 2
    /\ emb_ev.op = "set" /\ emb_ev.key = "z" /\ emb_ev.was_full
    /\ emb_ev.evicted = <<"y">>
    /\ access_order = <<"x", "z">>

\* ================================================= properties: ErrorHandler
\* how many of the errors handled so far were of type t
Arrived(t) ==
    Cardinality({i \in DOMAIN arrivals : arrivals[i].type = t})

\* C28: the history holds at most max_history records, namely the most
\* recent errors handled, in the order they arrived; the per-type counts
\* count every error handled, so that their sum is the number of
\* handle_error calls and not the length of the history
C28_HistoryCap ==
    /\ Len(error_history) <= max_history
    /\ error_history = LastOf(arrivals, max_history)
    /\ \A t \in DOMAIN error_counts : error_counts[t] = Arrived(t)
    /\ \A i \in DOMAIN arrivals : arrivals[i].type \in DOMAIN error_counts
    /\ SumCounts(error_counts) = Len(arrivals)
    /\ err_stats.taken => err_stats.total_errors = SumCounts(err_stats.error_counts)

\* more errors were handled than the history holds: the oldest are gone from
\* the history and still counted
C28_Witness ==
    /\ max_history = 2
    /\ Len(arrivals) = 5
    /\ Len(error_history) = 2
    /\ error_history[1] # arrivals[1]
    /\ SumCounts(error_counts) = 5
    /\ err_stats.total_errors = 5

\* ============================================== properties: CacheStatistics
\* C29: in every snapshot get_stats returns, total_requests is the sum of
\* hits, misses and errors, however the record_* calls of concurrent tasks
\* interleave; and a call of QueryCache.get that has returned or raised has
\* recorded exactly one of hit, miss and error
C29_StatsConsistent ==
    /\ snapshot.taken =>
         snapshot.total_requests
             = snapshot.hits + snapshot.misses + snapshot.errors
    /\ \A t \in Getters :
         g_pc[t] = "returned" =>
             /\ Len(g_recorded[t]) = 1
             /\ g_recorded[t][1] \in {"hit", "miss", "error"}

\* a snapshot with a hit and a miss in it was returned, one get has returned
\* after its hit, and the other task is in the middle of record_error, with
\* errors counted up and total_requests not yet
C29_Witness ==
    /\ snapshot.taken /\ snapshot.hits = 1 /\ snapshot.misses = 1
    /\ g_pc["g1"] = "returned" /\ g_recorded["g1"] = <<"hit">>
    /\ g_pc["g2"] = "inc_total" /\ g_todo["g2"] = <<"error">>
    /\ stats.total_requests # stats.hits + stats.misses + stats.errors

\* ================================ properties: get_cache / get_embedding_cache
\* C30: each global cache is a singleton: however the concurrent callers of
\* get_cache() interleave, at most one QueryCache is ever constructed and
\* every caller that gets a cache gets that one; and likewise for
\* get_embedding_cache() and EmbeddingCache
C30_Singleton ==
    \A g \in Globals :
        /\ si_built[g] <= 1
        /\ \A t \in Askers :
             si_pc[g][t] = "returned" =>
                 /\ si_got[g][t] # 0
                 /\ si_got[g][t] = si_instance[g]
        /\ \A t, u \in Askers :
             si_got[g][t] # 0 /\ si_got[g][u] # 0 => si_got[g][t] = si_got[g][u]

\* two callers found the query cache missing; one constructed it and got it,
\* the other entered the lock after that and is about to find it there
C30_Witness ==
    /\ si_built["query_cache"] = 1
    /\ si_pc["query_cache"]["t1"] = "returned"
    /\ si_got["query_cache"]["t1"] = 1
    /\ si_pc["query_cache"]["t2"] = "locked"

\* ================================== properties: call and async_call in step
\* C31: driving one breaker through call and an identically configured one
\* through async_call, one call at a time, with the same outcomes of func
\* and the same elapsed times, both give the same accept/reject decision
\* (and retry_after), status, failure_count and last_failure_time after
\* every step.
C31_SameTransitions == pair.sync = pair.async

\* C31 witness: both breakers were opened, probed after the timeout with a
\* call that failed again (failure_count beyond the threshold), and have
\* just refused a call
C31_Witness ==
    /\ pair.did \in Outcomes
    /\ pair.sync.decision = "reject"
    /\ pair.async.decision = "reject"
    /\ pair.sync.b.failure_count > pair.sync.b.failure_threshold
    /\ pair.async.b.status = OPEN

\* ====================================== properties: QueryCache, the two locks
\* task t holds the lock of the cache, resp. of the statistics
HoldsCache(t) == lk.cache_lock = t
HoldsStats(t) == lk.stats_lock = t

\* C37: under any interleaving of get, set, clear and get_statistics calls
\* of concurrent tasks, every call that was started returns; no task waits
\* for a lock it holds itself, and no task waits for the lock of the cache
\* while it holds the lock of the statistics (so the two locks are never
\* waited for in a cycle).
C37_EveryCallReturns ==
    /\ [](\A t \in LockTasks :
            /\ ~(At(t, "want_cache") /\ HoldsCache(t))
            /\ ~(At(t, "want_stats") /\ HoldsStats(t))
            /\ ~(At(t, "want_cache") /\ HoldsStats(t)))
    /\ \A t \in LockTasks : ~At(t, "idle") ~> At(t, "idle")

\* C37 witness: the MemoryError handler of a set has recorded the error
\* and now waits for the lock of the cache in clear(), while the other task
\* holds it inside get and waits for the lock of the statistics
C37_Witness ==
    \E t, u \in LockTasks :
      /\ At(t, "want_cache") /\ lk.after[t] = "clear"
      /\ HoldsCache(u) /\ At(u, "want_stats") /\ lk.after[u] = "unlock"

====
